---- MODULE Spec2Model ----
(***************************************************************************)
(* Rush-Royale-Bot as state machines: the merge decision cycle             *)
(* (Bot.try_merge, special_merge and the series primitives of              *)
(* Src/bot_core.py), the cell classifier and grid builder with its age     *)
(* tracking (core/perception.py), screen capture (Bot.getScreen), the      *)
(* publication of a cycle to the GUI thread (bot_loop, RR_bot.start_bot),  *)
(* deck selection (setup_unit_deck, select_units), the merge strategy of   *)
(* modules/combat.py (CombatStrategy), error recovery                      *)
(* (Src/error_recovery.py: ErrorRecoverySystem.handle_error) and the stop  *)
(* of the worker thread (RR_bot.stop_bot, bot_loop).                       *)
(*                                                                         *)
(* A pandas series indexed by (unit, rank) is a function from a finite set *)
(* of keys <<unit, rank>> to counts.  The grid is a function from the slot *)
(* number to the unit and rank shown there.                                *)
(***************************************************************************)
EXTENDS Integers, Sequences, FiniteSets, TLC

VARIABLES
    \* ---- one decide cycle (Bot.try_merge) ----
    pc,             \* position inside try_merge
    grid,           \* grid_df: slot -> [unit, rank]
    merge_target,   \* try_merge's merge_target (the configured dps unit)
    require_shaman, \* config 'require_shaman'
    rank,           \* try_merge's rank argument
    merge_series,   \* the working pool
    merge_df,       \* the merge try_merge returns (None or the rows)
    info,           \* the info string try_merge returns
    swipes,         \* every swipe sent to the device in this cycle
    waited,         \* the 'Board is full of demons, waiting...' branch ran
    raised,         \* an exception left try_merge
    \* ---- the series primitives called on their own ----
    f_op, f_series, f_units, f_ranks, f_target, f_keep_min,
    f_match, f_rest, f_pres,
    \* ---- grid builds (analyze_grid_state) ----
    a_grid,         \* the last build's result (None before the first)
    a_prev,         \* the previous_grid the last build was given
    a_hist,         \* what every build so far recognized, oldest first
    \* ---- Bot.special_merge called on its own ----
    s_grid,         \* df_split: the grid it is given
    s_target,       \* its target argument (the dps unit)
    s_out,          \* what it did (None before the call)
    \* ---- the cell classifier and grid builder (PerceptionSystem) ----
    p_refs,         \* unit_colors: the loaded references, in loading order
    p_model,        \* rank_model is not None
    p_cells,        \* the 15 cell images handed to analyze_grid_state
    p_grid,         \* the GridState built from them (None before)
    p_swipe,        \* the last swipe between two positions of p_grid
    \* ---- screen capture (Bot.getScreen) inside bot_loop ----
    c_screen,       \* screenRGB: None or the number of the capture it shows
    c_file,         \* bot_feed_<id>.png exists
    c_shots,        \* getScreen calls so far
    c_out,          \* where bot_loop stands after the last getScreen
    c_how,          \* how the last getScreen ended
    c_scan,         \* the last scanned grid: the capture it shows, its cycle
    c_alive,        \* bot_loop is still running
    \* ---- bot_loop publishing to the GUI thread (RR_bot.start_bot) ----
    u_wpc,          \* worker: 0 combat_loop, k storing field k, 9 event.set
    u_cycle,        \* worker: the number of the cycle it computed last
    u_local,        \* worker: its own grid_df, carried into the next cycle
    u_bot,          \* the attributes of bot the worker stores
    u_objs,         \* the grid copies stored in bot.grid_df, by cycle
    u_event,        \* info_event is set
    u_rpc,          \* reader: 0 waiting, k loading argument k, 8, 9
    u_snap,         \* reader: the arguments loaded for update_text
    \* ---- deck selection (setup_unit_deck, select_units) ----
    d_op,           \* which of the two ran ("none" before)
    d_req,          \* the unit names it was asked for
    d_active,       \* the unit files in the active directory
    d_ok,           \* what it returned
    \* ---- one round of CombatStrategy._execute_merge_strategy ----
    k_pc,           \* position inside _execute_merge_strategy
    k_grid,         \* grid_df: the rows with unit, rank and grid_pos
    k_target,       \* self.merge_target
    k_cands,        \* merge_candidates, in the order of value_counts
    k_swipes,       \* every bot.swipe call of the round
    k_merged,       \* merged_count
    \* ---- ErrorRecoverySystem.handle_error ----
    e_counts,       \* error_counts: error key -> count
    e_last,         \* what the last handle_error call did (None before)
    e_calls,        \* handle_error calls so far
    \* ---- stopping bot_loop from the GUI (RR_bot.start_bot, stop_bot) ----
    t_wpc,          \* worker: its position in bot_loop
    t_combat,       \* worker: combat
    t_wait,         \* worker: wait
    t_ad,           \* worker: watch_ad
    t_stop,         \* bot.bot_stop
    t_flag,         \* RR_bot.stop_flag
    t_gpc,          \* start_bot: its position in the dump loop
    t_after         \* combat cycles started since bot_stop was set

mergeVars == <<pc, grid, merge_target, require_shaman, rank, merge_series,
               merge_df, info, swipes, waited, raised>>
filterVars == <<f_op, f_series, f_units, f_ranks, f_target, f_keep_min,
                f_match, f_rest, f_pres>>
ageVars == <<a_grid, a_prev, a_hist>>
perceptVars == <<p_refs, p_model, p_cells, p_grid, p_swipe>>
captureVars == <<c_screen, c_file, c_shots, c_out, c_how, c_scan, c_alive>>
pubVars == <<u_wpc, u_cycle, u_local, u_bot, u_objs, u_event, u_rpc, u_snap>>
deckVars == <<d_op, d_req, d_active, d_ok>>
specialVars == <<s_grid, s_target, s_out>>
combatVars == <<k_pc, k_grid, k_target, k_cands, k_swipes, k_merged>>
recoveryVars == <<e_counts, e_last, e_calls>>
stopVars == <<t_wpc, t_combat, t_wait, t_ad, t_stop, t_flag, t_gpc, t_after>>
lateVars == <<combatVars, recoveryVars, stopVars>>
extraVars == <<perceptVars, captureVars, pubVars, deckVars, specialVars, lateVars>>
vars == <<mergeVars, filterVars, ageVars, extraVars>>

----------------------------------------------------------------------------
(* Python's None and a value that is not None. *)
None == [some |-> FALSE]
Some(v) == [some |-> TRUE, val |-> v]

Restrict(f, S) == [k \in S |-> f[k]]

Max(S) == CHOOSE x \in S : \A y \in S : y <= x
Min(S) == CHOOSE x \in S : \A y \in S : x <= y

RECURSIVE SumOver(_, _)
SumOver(f, S) ==
    IF S = {} THEN 0
    ELSE LET k == CHOOSE x \in S : TRUE
         IN  f[k] + SumOver(f, S \ {k})

(* sum(series) *)
Sum(series) == SumOver(series, DOMAIN series)

(* pd.Series(dtype=object): the series with no entries *)
EmptySeries == Restrict(<<>>, {})

(* the parts of the state a specification leaves alone *)
mergeIdle ==
    /\ pc = "off" /\ grid = <<>> /\ merge_target = "" /\ require_shaman = FALSE
    /\ rank = 0 /\ merge_series = EmptySeries /\ merge_df = None /\ info = ""
    /\ swipes = <<>> /\ waited = FALSE /\ raised = FALSE
filterIdle ==
    /\ f_op = "off" /\ f_series = EmptySeries /\ f_units = None /\ f_ranks = None
    /\ f_target = "" /\ f_keep_min = FALSE
    /\ f_match = None /\ f_rest = None /\ f_pres = None
ageIdle ==
    /\ a_grid = None /\ a_prev = None /\ a_hist = <<>>
perceptIdle ==
    /\ p_refs = <<>> /\ p_model = FALSE /\ p_cells = <<>> /\ p_grid = None
    /\ p_swipe = None
captureIdle ==
    /\ c_screen = None /\ c_file = FALSE /\ c_shots = 0 /\ c_out = "off"
    /\ c_how = "off" /\ c_scan = None /\ c_alive = FALSE
pubIdle ==
    /\ u_wpc = -1 /\ u_cycle = 0 /\ u_local = None /\ u_bot = <<>>
    /\ u_objs = <<>> /\ u_event = FALSE /\ u_rpc = -1 /\ u_snap = <<>>
deckIdle == d_op = "off" /\ d_req = <<>> /\ d_active = {} /\ d_ok = FALSE
specialIdle == s_grid = <<>> /\ s_target = "" /\ s_out = None
combatIdle ==
    /\ k_pc = "off" /\ k_grid = <<>> /\ k_target = "" /\ k_cands = <<>>
    /\ k_swipes = <<>> /\ k_merged = 0
recoveryIdle == e_counts = <<>> /\ e_last = None /\ e_calls = 0
stopIdle ==
    /\ t_wpc = "off" /\ t_combat = 0 /\ t_wait = 0 /\ t_ad = FALSE
    /\ t_stop = FALSE /\ t_flag = FALSE /\ t_gpc = "off" /\ t_after = 0
lateIdle == combatIdle /\ recoveryIdle /\ stopIdle
extraIdle ==
    /\ perceptIdle /\ captureIdle /\ pubIdle /\ deckIdle /\ specialIdle
    /\ lateIdle

----------------------------------------------------------------------------
(* Src/bot_core.py: filter_units.  level is "unit" for str tokens and      *)
(* "rank" for int tokens (the isinstance dispatch).  Every token that      *)
(* occurs at its level contributes its cross-section; the result is the    *)
(* original series restricted to the keys of the concatenation, and the    *)
(* empty series when no token occurs.                                      *)
filter_units(unit_series, tokens, level) ==
    Restrict(unit_series,
             {k \in DOMAIN unit_series :
                 IF level = "rank" THEN k[2] \in tokens ELSE k[1] \in tokens})

(* Src/bot_core.py: adv_filter_keys.  units and ranks are None or Some(set) *)
adv_filter_keys_or(unit_series, units, ranks, remove) ==
    IF DOMAIN unit_series = {} THEN EmptySeries
    ELSE
      LET u == IF units.some THEN DOMAIN filter_units(unit_series, units.val, "unit")
               ELSE {}
          r == IF ranks.some THEN DOMAIN filter_units(unit_series, ranks.val, "rank")
               ELSE {}
          hit == IF units.some /\ ranks.some THEN u \cup r
                 ELSE IF units.some THEN u
                 ELSE IF ranks.some THEN r
                 ELSE DOMAIN unit_series
      IN  IF remove THEN Restrict(unit_series, DOMAIN unit_series \ hit)
          ELSE Restrict(unit_series, hit)

adv_filter_keys_remove_units(unit_series, units, ranks, remove) ==
    IF DOMAIN unit_series = {} THEN EmptySeries
    ELSE
      LET filtered_units ==
              IF units.some THEN filter_units(unit_series, units.val, "unit")
              ELSE unit_series
          filtered_ranks ==
              IF ranks.some /\ DOMAIN filtered_units # {}
              THEN filter_units(filtered_units, ranks.val, "rank")
              ELSE filtered_units
      IN  IF remove
          THEN Restrict(unit_series, DOMAIN unit_series \ DOMAIN filtered_units)
          ELSE Restrict(unit_series, DOMAIN unit_series \cap DOMAIN filtered_ranks)

adv_filter_keys(unit_series, units, ranks, remove) ==
    IF DOMAIN unit_series = {} THEN EmptySeries
    ELSE
      LET filtered_units ==
              IF units.some THEN filter_units(unit_series, units.val, "unit")
              ELSE unit_series
          filtered_ranks ==
              IF ranks.some /\ DOMAIN filtered_units # {}
              THEN filter_units(filtered_units, ranks.val, "rank")
              ELSE filtered_units
      IN  IF remove
          THEN Restrict(unit_series, DOMAIN unit_series \ DOMAIN filtered_ranks)
          ELSE Restrict(unit_series, DOMAIN unit_series \cap DOMAIN filtered_ranks)

(* Src/bot_core.py: preserve_unit.  arg is the caller's series after the   *)
(* call (the function works on a copy), ret the returned series.           *)
preserve_unit_swapped(unit_series, target, keep_min) ==
    LET preserve_series == adv_filter_keys(unit_series, Some({target}), None, FALSE)
    IN  IF DOMAIN preserve_series # {}
        THEN LET ranks == {k[2] : k \in DOMAIN preserve_series}
                 key == <<target, IF keep_min THEN Max(ranks) ELSE Min(ranks)>>
                 dec == [k \in DOMAIN unit_series |->
                            IF k = key THEN unit_series[k] - 1 ELSE unit_series[k]]
             IN  [arg |-> unit_series,
                  ret |-> Restrict(dec, {k \in DOMAIN dec : dec[k] > 0})]
        ELSE [arg |-> unit_series, ret |-> unit_series]

(* the decrement without the 'merge_series > 0' selection *)
preserve_unit_keep_zero(unit_series, target, keep_min) ==
    LET preserve_series == adv_filter_keys(unit_series, Some({target}), None, FALSE)
    IN  IF DOMAIN preserve_series # {}
        THEN LET ranks == {k[2] : k \in DOMAIN preserve_series}
                 key == <<target, IF keep_min THEN Min(ranks) ELSE Max(ranks)>>
             IN  [arg |-> unit_series,
                  ret |-> [k \in DOMAIN unit_series |->
                              IF k = key THEN unit_series[k] - 1
                              ELSE unit_series[k]]]
        ELSE [arg |-> unit_series, ret |-> unit_series]

preserve_unit(unit_series, target, keep_min) ==
    LET merge_series_copy == unit_series
        preserve_series ==
            adv_filter_keys(merge_series_copy, Some({target}), None, FALSE)
    IN  IF DOMAIN preserve_series # {}
        THEN LET ranks == {k[2] : k \in DOMAIN preserve_series}
                 \* index.min() / index.max() of the (target, rank) tuples
                 key == <<target, IF keep_min THEN Min(ranks) ELSE Max(ranks)>>
                 dec == [k \in DOMAIN merge_series_copy |->
                            IF k = key THEN merge_series_copy[k] - 1
                            ELSE merge_series_copy[k]]
             IN  [arg |-> unit_series,
                  ret |-> Restrict(dec, {k \in DOMAIN dec : dec[k] > 0})]
        ELSE [arg |-> unit_series, ret |-> merge_series_copy]

----------------------------------------------------------------------------
(* Src/bot_core.py: the grid and its census.  grid_df is a function from   *)
(* the slot number to the [unit, rank] shown there; a row's grid_pos is    *)
(* one-to-one with its slot, so a slot number stands for the position.     *)
GridSize == 15
Slots == 1..GridSize

(* the unit names in the order Python sorts them: the order of a groupby   *)
(* index, hence of series.index[0] and of index.min()/index.max()          *)
UnitNames ==
    <<"bombardier.png", "bruser.png", "cauldron.png", "chemist.png",
      "crystal.png", "demon_hunter.png", "dryad.png", "empty.png",
      "harlequin.png", "knight_statue.png", "summoner.png", "zealot.png">>
UnitIndex(u) == CHOOSE i \in 1..Len(UnitNames) : UnitNames[i] = u
KeyLE(a, b) ==
    \/ UnitIndex(a[1]) < UnitIndex(b[1])
    \/ a[1] = b[1] /\ a[2] <= b[2]
(* series.index[0] *)
FirstKey(series) ==
    CHOOSE k \in DOMAIN series : \A o \in DOMAIN series : KeyLE(k, o)

KeyAt(g, i) == <<g[i].unit, g[i].rank>>
(* df_split.get_group(key): the rows (slots) of one (unit, rank) group *)
get_group(g, key) == {i \in DOMAIN g : KeyAt(g, i) = key}
(* grid_meta_info: unit_series, the count of every (unit, rank) group *)
unit_series_of(g) ==
    [k \in {KeyAt(g, i) : i \in DOMAIN g} |-> Cardinality(get_group(g, k))]
(* get_unit_count: df_groups[unit], with 'empty.png' set to 0 when absent *)
df_groups(g, unit) == Cardinality({i \in DOMAIN g : g[i].unit = unit})
(* get_unit_count: the whole df_groups series, one entry per unit on the   *)
(* grid and an 'empty.png' entry of 0 when no slot is empty                *)
get_unit_count(g) ==
    [u \in {g[i].unit : i \in DOMAIN g} \cup {"empty.png"} |-> df_groups(g, u)]

(* What one merge helper did: the swipe it sent (None or the two slots in  *)
(* the order swiped), the merge_df it returned, whether it raised.         *)
Outcome(swipe, ret, err) == [swipe |-> swipe, ret |-> ret, err |-> err]
NoMerge == Outcome(None, None, FALSE)
Raises == Outcome(None, None, TRUE)

(* Bot.merge_unit: every outcome of the two random draws *)
merge_unit_by_unit(g, series) ==
    IF DOMAIN series = {}
    THEN {Outcome(None, Some(<<>>), FALSE)}
    ELSE UNION {
           LET rows == {i \in DOMAIN g : g[i].unit = merge_target_key[1]}
           IN  IF rows = {} THEN {Raises}
               ELSE IF Cardinality(rows) > 1
               THEN {Outcome(Some(p), Some(p), FALSE) :
                        p \in {q \in rows \X rows : q[1] # q[2]}}
               ELSE {Outcome(None, Some(<<r>>), FALSE) : r \in rows}
           : merge_target_key \in DOMAIN series}

merge_unit(g, series) ==
    IF DOMAIN series = {}
    THEN {Outcome(None, Some(<<>>), FALSE)}      \* returns the empty series
    ELSE UNION {
           LET rows == get_group(g, merge_target_key)
           IN  IF rows = {} THEN {Raises}         \* get_group: KeyError
               ELSE IF Cardinality(rows) > 1
               THEN {Outcome(Some(p), Some(p), FALSE) :
                        p \in {q \in rows \X rows : q[1] # q[2]}}
               ELSE {Outcome(None, Some(<<r>>), FALSE) : r \in rows}
           : merge_target_key \in DOMAIN series}

(* Bot.merge_special_unit: one random row of the special unit's first      *)
(* group, one of the other unit's first group, swiped in that order        *)
merge_special_unit(g, series, special_type) ==
    LET special_unit == adv_filter_keys(series, Some({special_type}), None, FALSE)
        normal_unit == adv_filter_keys(series, Some({special_type}), None, TRUE)
    IN  IF DOMAIN special_unit = {} \/ DOMAIN normal_unit = {}
        THEN {Raises}                             \* unit.index[0]: IndexError
        ELSE LET special_rows == get_group(g, FirstKey(special_unit))
                 normal_rows == get_group(g, FirstKey(normal_unit))
             IN  IF special_rows = {} \/ normal_rows = {} THEN {Raises}
                 ELSE {Outcome(Some(<<s, n>>), Some(<<s, n>>), FALSE) :
                          s \in special_rows, n \in normal_rows}

(* the dryad ranks taken from the highest down *)
special_merge_descending(g, series, target) ==
    LET dryads_series == adv_filter_keys(series, Some({"dryad.png"}), None, FALSE)
        dryads_rank == {k[2] : k \in DOMAIN dryads_series}
        merge_series_dryad(r) ==
            adv_filter_keys(series, Some({"harlequin.png", "dryad.png"}),
                            Some({r}), FALSE)
        merge_series_zealot(r) ==
            adv_filter_keys(series, Some({"dryad.png", target}), Some({r}), FALSE)
        hits == {r \in dryads_rank :
                    \/ Cardinality(DOMAIN merge_series_dryad(r)) = 2
                    \/ Cardinality(DOMAIN merge_series_zealot(r)) = 2}
    IN  IF hits = {} THEN {NoMerge}
        ELSE LET r == Max(hits)
             IN  IF Cardinality(DOMAIN merge_series_dryad(r)) = 2
                 THEN merge_special_unit(g, merge_series_dryad(r), "harlequin.png")
                 ELSE merge_special_unit(g, merge_series_zealot(r), "dryad.png")

(* Bot.special_merge: the dryad ranks in index order; the first rank with  *)
(* a two-entry harlequin/dryad or dryad/target selection merges and breaks *)
special_merge(g, series, target) ==
    LET dryads_series == adv_filter_keys(series, Some({"dryad.png"}), None, FALSE)
        dryads_rank == {k[2] : k \in DOMAIN dryads_series}
        merge_series_dryad(r) ==
            adv_filter_keys(series, Some({"harlequin.png", "dryad.png"}),
                            Some({r}), FALSE)
        merge_series_zealot(r) ==
            adv_filter_keys(series, Some({"dryad.png", target}), Some({r}), FALSE)
        hits == {r \in dryads_rank :
                    \/ Cardinality(DOMAIN merge_series_dryad(r)) = 2
                    \/ Cardinality(DOMAIN merge_series_zealot(r)) = 2}
    IN  IF hits = {} THEN {NoMerge}
        ELSE LET r == Min(hits)
             IN  IF Cardinality(DOMAIN merge_series_dryad(r)) = 2
                 THEN merge_special_unit(g, merge_series_dryad(r), "harlequin.png")
                 ELSE merge_special_unit(g, merge_series_zealot(r), "dryad.png")

(* the first harlequin group with the first group of the target, whatever  *)
(* their ranks                                                             *)
harley_merge_any_rank(g, series, target) ==
    LET pair == adv_filter_keys(series, Some({"harlequin.png", target}), None, FALSE)
    IN  IF \/ DOMAIN adv_filter_keys(series, Some({"harlequin.png"}), None, FALSE) = {}
           \/ DOMAIN adv_filter_keys(series, Some({target}), None, FALSE) = {}
        THEN {NoMerge}
        ELSE merge_special_unit(g, pair, "harlequin.png")

(* Bot.harley_merge: the harlequin ranks in index order; the first rank    *)
(* that also holds the target merges and breaks                            *)
harley_merge(g, series, target) ==
    LET hq_series == adv_filter_keys(series, Some({"harlequin.png"}), None, FALSE)
        hq_rank == {k[2] : k \in DOMAIN hq_series}
        merge_series_target(r) ==
            adv_filter_keys(series, Some({"harlequin.png", target}), Some({r}), FALSE)
        hits == {r \in hq_rank : Cardinality(DOMAIN merge_series_target(r)) = 2}
    IN  IF hits = {} THEN {NoMerge}
        ELSE merge_special_unit(g, merge_series_target(Min(hits)), "harlequin.png")

----------------------------------------------------------------------------
(* Src/bot_core.py: Bot.try_merge, one action per stage of the pipeline.   *)
DemonLimit == 11
FullLimit == 2
MaxRank == 7
CauldronsKept == 4
KnightsKept == 2
DemonHunter == "demon_hunter.png"
PriorityUnits ==
    {"chemist.png", "bombardier.png", "summoner.png", "knight_statue.png"}
HighLevelRanks == {3, 4, 5, 6, 7}
HighLevelUnits(target) == {"zealot.png", "crystal.png", "bruser.png", target}

(* preserve_unit applied once, whatever n *)
preserve_times_once(series, target, keep_min, n) ==
    IF n = 0 THEN series ELSE preserve_unit(series, target, keep_min).ret

(* preserve_unit applied n times over *)
RECURSIVE preserve_times(_, _, _, _)
preserve_times(series, target, keep_min, n) ==
    IF n = 0 THEN series
    ELSE preserve_times(preserve_unit(series, target, keep_min).ret,
                        target, keep_min, n - 1)

(* merge_series[merge_series >= 2], then the max ranks removed *)
narrow_ge1(series) ==
    adv_filter_keys(Restrict(series, {k \in DOMAIN series : series[k] >= 1}),
                    None, Some({MaxRank}), TRUE)

(* merge_series[merge_series >= 2] alone *)
narrow_keep_max(series) ==
    Restrict(series, {k \in DOMAIN series : series[k] >= 2})

narrow(series) ==
    adv_filter_keys(Restrict(series, {k \in DOMAIN series : series[k] >= 2}),
                    None, Some({MaxRank}), TRUE)

(* df_groups['empty.png'] <= 2 *)
board_is_full_ge(g) == df_groups(g, "empty.png") >= FullLimit

board_is_full(g) == get_unit_count(g)["empty.png"] <= FullLimit

(* The grids a cycle may scan.  try_merge reads the grid only through its  *)
(* (unit, rank) groups, so one arrangement stands for every grid with the  *)
(* same groups: the first NActive slots hold any NActive of ActiveKinds in *)
(* the order of that list, the other slots one of four backgrounds.        *)
NActive == 4
ActiveKinds ==
    << <<"empty.png", 0>>, <<"dryad.png", 1>>, <<"harlequin.png", 1>>,
       <<"chemist.png", 1>>, <<"chemist.png", 4>>, <<"demon_hunter.png", 3>>,
       <<"knight_statue.png", 1>>, <<"zealot.png", 1>>, <<"cauldron.png", 1>> >>
Backgrounds == {"empty", "demons", "mixed", "cauldrons"}
BackgroundCell(bg, i) ==
    IF bg = "empty" THEN <<"empty.png", 0>>
    ELSE IF bg = "demons" THEN <<"demon_hunter.png", (i % 4) + 1>>
    ELSE IF bg = "cauldrons" /\ i % 3 = 0 THEN <<"cauldron.png", (i \div 12) + 1>>
    ELSE IF i % 2 = 0 THEN <<"crystal.png", ((i \div 2) % MaxRank) + 1>>
    ELSE <<"bruser.png", ((i \div 2) % MaxRank) + 1>>
ActiveChoices ==
    {s \in [1..NActive -> 1..Len(ActiveKinds)] :
        \A i \in 1..(NActive - 1) : s[i] <= s[i + 1]}
GridOf(s, bg) ==
    [i \in Slots |->
        LET cell == IF i <= NActive THEN ActiveKinds[s[i]]
                    ELSE BackgroundCell(bg, i)
        IN  [unit |-> cell[1], rank |-> cell[2]]]
MergeTargets == {"zealot.png", "demon_hunter.png"}
TargetRanks == {1}

Init ==
    /\ pc = "idle" /\ grid = <<>> /\ merge_target = "" /\ require_shaman = FALSE
    /\ rank = 0 /\ merge_series = EmptySeries /\ merge_df = None /\ info = ""
    /\ swipes = <<>> /\ waited = FALSE /\ raised = FALSE
    /\ filterIdle /\ ageIdle /\ extraIdle

Swiped(stage, o) ==
    IF o.swipe.some
    THEN Append(swipes, [stage |-> stage, from |-> o.swipe.val[1],
                         to |-> o.swipe.val[2]])
    ELSE swipes

(* an exception leaves try_merge: nothing is returned *)
Raise ==
    /\ pc' = "done" /\ raised' = TRUE
    /\ UNCHANGED <<grid, merge_target, require_shaman, rank, merge_series,
                   merge_df, info, swipes, waited>>

(* lines 424-467: scan the grid, take the census, strip 'empty.png' *)
Scan ==
    /\ pc = "idle"
    /\ \E s \in ActiveChoices, bg \in Backgrounds :
          /\ grid' = GridOf(s, bg)
          /\ merge_series' =
                adv_filter_keys(unit_series_of(GridOf(s, bg)),
                                Some({"empty.png"}), None, TRUE)
    /\ merge_target' \in MergeTargets
    /\ require_shaman' \in BOOLEAN
    /\ rank' \in TargetRanks
    /\ merge_df' = None /\ info' = "" /\ swipes' = <<>>
    /\ waited' = FALSE /\ raised' = FALSE
    /\ pc' = "special"
    /\ UNCHANGED <<filterVars, ageVars, extraVars>>

(* line 470: special_merge; what it returns is dropped *)
SpecialMerge ==
    /\ pc = "special"
    /\ \E o \in special_merge(grid, merge_series, merge_target) :
          IF o.err THEN Raise
          ELSE /\ swipes' = Swiped("special", o)
               /\ pc' = "demon"
               /\ UNCHANGED <<grid, merge_target, require_shaman, rank,
                              merge_series, merge_df, info, waited, raised>>
    /\ UNCHANGED <<filterVars, ageVars, extraVars>>

(* the strip left out *)
shaman_strip_off(series, shaman) == series

(* lines 485-486: with require_shaman the demon hunters leave the pool *)
shaman_strip(series, shaman) ==
    IF shaman THEN adv_filter_keys(series, Some({DemonHunter}), None, TRUE)
    ELSE series

(* lines 472-486: harlequin copy of the dps unit, the demon count, the     *)
(* require_shaman strip; the sleep is the only effect of the count         *)
DemonGuard ==
    /\ pc = "demon"
    /\ IF merge_target = DemonHunter
       THEN \E o \in harley_merge(grid, merge_series, merge_target) :
              IF o.err THEN Raise
              ELSE LET demons == adv_filter_keys(merge_series,
                                     Some({DemonHunter}), None, FALSE)
                       num_demon == Sum(demons)
                   IN  /\ swipes' = Swiped("harley_dps", o)
                       /\ waited' = (num_demon >= DemonLimit)
                       /\ merge_series' =
                            shaman_strip(merge_series, require_shaman)
                       /\ pc' = "protect"
                       /\ UNCHANGED <<grid, merge_target, require_shaman, rank,
                                      merge_df, info, raised>>
       ELSE /\ pc' = "protect"
            /\ UNCHANGED <<grid, merge_target, require_shaman, rank,
                           merge_series, merge_df, info, swipes, waited, raised>>
    /\ UNCHANGED <<filterVars, ageVars, extraVars>>

(* lines 487-490: keep the highest chemist and the four lowest cauldrons *)
Protect ==
    /\ pc = "protect"
    /\ merge_series' =
          preserve_times(preserve_unit(merge_series, "chemist.png", FALSE).ret,
                         "cauldron.png", TRUE, CauldronsKept)
    /\ pc' = "knight"
    /\ UNCHANGED <<grid, merge_target, require_shaman, rank, merge_df, info,
                   swipes, waited, raised>>
    /\ UNCHANGED <<filterVars, ageVars, extraVars>>

(* lines 491-497: harlequin copy on an odd knight_statue count (what it    *)
(* returns is dropped), then keep the two highest knight statues           *)
KnightParity ==
    /\ pc = "knight"
    /\ LET num_knight == Sum(adv_filter_keys(merge_series,
                                 Some({"knight_statue.png"}), None, FALSE))
           kept == preserve_times(merge_series, "knight_statue.png", FALSE,
                                  KnightsKept)
       IN  IF num_knight % 2 = 1
           THEN \E o \in harley_merge(grid, merge_series, "knight_statue.png") :
                  IF o.err THEN Raise
                  ELSE /\ swipes' = Swiped("harley_knight", o)
                       /\ merge_series' = kept
                       /\ pc' = "narrow"
                       /\ UNCHANGED <<grid, merge_target, require_shaman, rank,
                                      merge_df, info, waited, raised>>
           ELSE /\ merge_series' = kept
                /\ pc' = "narrow"
                /\ UNCHANGED <<grid, merge_target, require_shaman, rank,
                               merge_df, info, swipes, waited, raised>>
    /\ UNCHANGED <<filterVars, ageVars, extraVars>>

(* lines 498-500 *)
Narrow ==
    /\ pc = "narrow"
    /\ merge_series' = narrow(merge_series)
    /\ pc' = "prio"
    /\ UNCHANGED <<grid, merge_target, require_shaman, rank, merge_df, info,
                   swipes, waited, raised>>
    /\ UNCHANGED <<filterVars, ageVars, extraVars>>

(* lines 501-509 *)
PriorityMerge ==
    /\ pc = "prio"
    /\ LET merge_prio == adv_filter_keys(merge_series, Some(PriorityUnits),
                                         None, FALSE)
       IN  IF DOMAIN merge_prio # {}
           THEN \E o \in merge_unit(grid, merge_prio) :
                  IF o.err THEN Raise
                  ELSE /\ info' = "Merging High Priority!"
                       /\ merge_df' = o.ret
                       /\ swipes' = Swiped("prio", o)
                       /\ pc' = "full"
                       /\ UNCHANGED <<grid, merge_target, require_shaman, rank,
                                      merge_series, waited, raised>>
           ELSE /\ pc' = "full"
                /\ UNCHANGED <<grid, merge_target, require_shaman, rank,
                               merge_series, merge_df, info, swipes, waited,
                               raised>>
    /\ UNCHANGED <<filterVars, ageVars, extraVars>>

(* lines 510-538 *)
Fullness ==
    /\ pc = "full"
    /\ IF board_is_full(grid)
       THEN LET low_series == adv_filter_keys(merge_series, None, Some({rank}),
                                              FALSE)
                high_series ==
                    adv_filter_keys(merge_series,
                                    Some(HighLevelUnits(merge_target)),
                                    Some(HighLevelRanks), TRUE)
            IN  IF DOMAIN low_series # {}
                THEN \E o \in merge_unit(grid, low_series) :
                       IF o.err THEN Raise
                       ELSE /\ info' = "Merging!"
                            /\ merge_df' = o.ret
                            /\ swipes' = Swiped("full", o)
                            /\ pc' = "done"
                            /\ UNCHANGED <<grid, merge_target, require_shaman,
                                           rank, merge_series, waited, raised>>
                ELSE IF DOMAIN high_series # {}
                THEN \E o \in merge_unit(grid, high_series) :
                       IF o.err THEN Raise
                       ELSE /\ info' = "Merging high level!"
                            /\ merge_series' = high_series
                            /\ merge_df' = o.ret
                            /\ swipes' = Swiped("escalate", o)
                            /\ pc' = "done"
                            /\ UNCHANGED <<grid, merge_target, require_shaman,
                                           rank, waited, raised>>
                ELSE /\ info' = "Merging high level!"
                     /\ merge_series' = high_series
                     /\ pc' = "done"
                     /\ UNCHANGED <<grid, merge_target, require_shaman, rank,
                                    merge_df, swipes, waited, raised>>
       ELSE /\ info' = "need more units!"
            /\ pc' = "done"
            /\ UNCHANGED <<grid, merge_target, require_shaman, rank,
                           merge_series, merge_df, swipes, waited, raised>>
    /\ UNCHANGED <<filterVars, ageVars, extraVars>>

(* line 548: try_merge has returned; bot_loop comes back for the next cycle *)
Return ==
    /\ pc = "done" /\ ~raised
    /\ pc' = "idle" /\ grid' = <<>> /\ merge_target' = ""
    /\ require_shaman' = FALSE /\ rank' = 0 /\ merge_series' = EmptySeries
    /\ merge_df' = None /\ info' = "" /\ swipes' = <<>>
    /\ waited' = FALSE /\ raised' = FALSE
    /\ UNCHANGED <<filterVars, ageVars, extraVars>>

Next ==
    \/ Scan \/ SpecialMerge \/ DemonGuard \/ Protect \/ KnightParity
    \/ Narrow \/ PriorityMerge \/ Fullness \/ Return
Spec == Init /\ [][Next]_vars

(* the stages that merge through merge_unit, and those that merge two      *)
(* different units through merge_special_unit                              *)
MergeUnitStages == {"prio", "full", "escalate"}
SpecialStages == {"special", "harley_dps", "harley_knight"}
InCycle == pc \notin {"idle", "off"}
Census == adv_filter_keys(unit_series_of(grid), Some({"empty.png"}), None, TRUE)
(* no (unit, rank) entry of the census is held twice *)
NoPair == LET census == Census IN \A k \in DOMAIN census : census[k] < 2
UnitOf(i) == grid[i].unit
RankOf(i) == grid[i].rank

(* C1: a decide cycle issues at most one swipe: once a special, harlequin  *)
(* or priority merge was executed, no later stage swipes again.            *)
C1_OneSwipePerCycle == Len(swipes) <= 1

(* C2 as stated: a census with no count >= 2 gives no swipe at all, no     *)
(* merge and no exception.                                                 *)
C2_NoPairNoSwipe ==
    (InCycle /\ NoPair) => swipes = <<>> /\ merge_df = None /\ ~raised

(* C2 as amended: a census with no count >= 2 gives no priority or         *)
(* fullness swipe, no returned merge and no exception; a swipe it does     *)
(* issue is a special-combo or harlequin-copy merge of two different units *)
(* of one rank, and there is none without a dryad or harlequin on board.   *)
C2_NoPairNoMergeUnit ==
    (InCycle /\ NoPair) =>
        /\ merge_df = None /\ ~raised
        /\ \A n \in 1..Len(swipes) :
              /\ swipes[n].stage \in SpecialStages
              /\ UnitOf(swipes[n].from) # UnitOf(swipes[n].to)
              /\ RankOf(swipes[n].from) = RankOf(swipes[n].to)
        /\ (\A i \in Slots : UnitOf(i) \notin {"dryad.png", "harlequin.png"})
              => swipes = <<>>

(* a full board of fifteen different (unit, rank) pairs, decided *)
C2_Witness ==
    /\ pc = "done" /\ NoPair /\ df_groups(grid, "empty.png") = 0
    /\ info = "Merging high level!" /\ merge_df = None

(* C4: every merge of merge_unit pairs two distinct slots of the grid that *)
(* hold the same unit and the same rank (so its group has two positions).  *)
C4_SameUnitSameRank ==
    \A n \in 1..Len(swipes) :
        swipes[n].stage \in MergeUnitStages =>
            /\ swipes[n].from \in Slots /\ swipes[n].to \in Slots
            /\ swipes[n].from # swipes[n].to
            /\ KeyAt(grid, swipes[n].from) = KeyAt(grid, swipes[n].to)
            /\ Cardinality(get_group(grid, KeyAt(grid, swipes[n].from))) >= 2

(* a priority merge of chemists while a chemist of another rank is on board *)
C4_Witness ==
    /\ Len(swipes) = 1 /\ swipes[1].stage = "prio"
    /\ KeyAt(grid, swipes[1].from) = <<"chemist.png", 1>>
    /\ \E i \in Slots : KeyAt(grid, i) = <<"chemist.png", 4>>

(* C8: with dps unit demon_hunter and 11 or more demon hunters on board    *)
(* the cycle waits: no priority or fullness swipe and no merge returned.   *)
C8_DemonsMeanNoMerge ==
    (InCycle /\ merge_target = DemonHunter
             /\ df_groups(grid, DemonHunter) >= DemonLimit) =>
        /\ merge_df = None
        /\ \A n \in 1..Len(swipes) : swipes[n].stage \notin MergeUnitStages

(* the grid of C9: two rank-3 demon hunters and thirteen empty slots *)
TwoDemonsGrid ==
    /\ InCycle /\ merge_target = DemonHunter
    /\ df_groups(grid, "empty.png") = GridSize - 2
    /\ Cardinality(get_group(grid, <<DemonHunter, 3>>)) = 2

(* C9 as stated: on that grid the cycle returns a merge pairing the two    *)
(* demon hunter slots.                                                     *)
C9_TwoDemonsMerged ==
    (TwoDemonsGrid /\ pc = "done") =>
        /\ merge_df.some
        /\ {merge_df.val[1], merge_df.val[2]} = get_group(grid, <<DemonHunter, 3>>)

(* C9 as amended: on that grid the cycle issues no swipe, returns no merge *)
(* and reports 'need more units!'.                                         *)
C9_TwoDemonsIdle ==
    TwoDemonsGrid =>
        /\ swipes = <<>> /\ merge_df = None /\ ~raised
        /\ pc = "done" => info = "need more units!"

C9_Witness == TwoDemonsGrid /\ pc = "done" /\ ~require_shaman

(* the pool of C10: three rank-1 chemists and one rank-4 chemist *)
ChemistPool ==
    /\ InCycle
    /\ LET census == Census
       IN  /\ DOMAIN census = {<<"chemist.png", 1>>, <<"chemist.png", 4>>}
           /\ census[<<"chemist.png", 1>>] = 3
           /\ census[<<"chemist.png", 4>>] = 1
AfterProtect == pc \in {"knight", "narrow", "prio", "full", "done"}

(* C10 as stated: the protection pass removes the rank-4 entry and the     *)
(* cycle does not merge chemists while the rank-4 chemist is protected.    *)
C10_NoChemistMerge ==
    ChemistPool =>
        /\ AfterProtect => <<"chemist.png", 4>> \notin DOMAIN merge_series
        /\ \A n \in 1..Len(swipes) : UnitOf(swipes[n].from) # "chemist.png"

(* C10 as amended: the protection pass removes the rank-4 entry and leaves *)
(* the three rank-1 chemists in the pool; the cycle never swipes the       *)
(* rank-4 chemist, and its priority merge pairs two rank-1 chemists.       *)
C10_ProtectedRankKept ==
    ChemistPool =>
        /\ AfterProtect =>
              /\ <<"chemist.png", 4>> \notin DOMAIN merge_series
              /\ <<"chemist.png", 1>> \in DOMAIN merge_series
              /\ merge_series[<<"chemist.png", 1>>] = 3
        /\ \A n \in 1..Len(swipes) :
              /\ KeyAt(grid, swipes[n].from) = <<"chemist.png", 1>>
              /\ KeyAt(grid, swipes[n].to) = <<"chemist.png", 1>>
        /\ pc \in {"full", "done"} =>
              /\ Len(swipes) = 1 /\ swipes[1].stage = "prio"
              /\ merge_df = Some(<<swipes[1].from, swipes[1].to>>)

C10_Witness ==
    /\ ChemistPool /\ pc = "done" /\ info = "need more units!"
    /\ Len(swipes) = 1

(* the count a series holds for a unit at a rank, 0 when it has no entry *)
CountIn(series, unit, r) ==
    IF <<unit, r>> \in DOMAIN series THEN series[<<unit, r>>] ELSE 0
(* the units of that kind a series holds below the rank *)
Below(series, unit, r) ==
    SumOver([q \in 1..(r - 1) |-> CountIn(series, unit, q)], 1..(r - 1))
Zero(n) == IF n < 0 THEN 0 ELSE n

(* C20: the protection pass takes up to 4 cauldrons out of the pool, the   *)
(* lowest ranks first, and 1 chemist of the highest rank; so no priority   *)
(* or fullness merge pairs two cauldrons on a board with fewer than 6      *)
(* cauldrons, and none pairs two chemists on a board with fewer than 3.    *)
C20_ProtectedUnitsKept ==
    /\ pc = "knight" =>
          LET census == Census
              top == Max({0} \cup {k[2] : k \in {c \in DOMAIN census :
                                                    c[1] = "chemist.png"}})
          IN  \A r \in 1..MaxRank :
                /\ CountIn(merge_series, "cauldron.png", r)
                     = Zero(CountIn(census, "cauldron.png", r)
                            - Zero(CauldronsKept - Below(census, "cauldron.png", r)))
                /\ CountIn(merge_series, "chemist.png", r)
                     = CountIn(census, "chemist.png", r) - (IF r = top THEN 1 ELSE 0)
    /\ \A n \in 1..Len(swipes) :
          swipes[n].stage \in MergeUnitStages =>
            /\ df_groups(grid, "cauldron.png") < 6
                  => UnitOf(swipes[n].from) # "cauldron.png"
            /\ df_groups(grid, "chemist.png") < 3
                  => UnitOf(swipes[n].from) # "chemist.png"

(* a full board with five cauldrons of two ranks and two chemists, decided *)
(* without a merge                                                         *)
C20_Witness ==
    /\ pc = "done" /\ ~raised /\ board_is_full(grid)
    /\ df_groups(grid, "cauldron.png") = 5
    /\ Cardinality(get_group(grid, <<"cauldron.png", 2>>)) = 2
    /\ df_groups(grid, "chemist.png") = 2
    /\ info = "Merging high level!" /\ swipes = <<>>

(* C24: a cycle that reports 'need more units!' issued no special,        *)
(* harlequin-copy, priority or fullness swipe and returns no merge.        *)
C24_NeedMoreUnitsIsNoAction ==
    (pc = "done" /\ ~raised /\ info = "need more units!") =>
        swipes = <<>> /\ merge_df = None

(* C25: with dps unit demon_hunter and require_shaman set, no demon_hunter *)
(* entry is in the pool from the saturation guard onward and no priority   *)
(* or fullness merge pairs demon hunters; with require_shaman not set the  *)
(* guard leaves the pool as it was.                                        *)
C25_ShamanStripsDemonHunters ==
    (InCycle /\ merge_target = DemonHunter /\ ~raised) =>
        /\ (require_shaman /\ pc \notin {"special", "demon"}) =>
              /\ \A k \in DOMAIN merge_series : k[1] # DemonHunter
              /\ \A n \in 1..Len(swipes) :
                    swipes[n].stage \in MergeUnitStages =>
                        /\ UnitOf(swipes[n].from) # DemonHunter
                        /\ UnitOf(swipes[n].to) # DemonHunter
              /\ merge_df.some =>
                    \A n \in 1..Len(merge_df.val) :
                        UnitOf(merge_df.val[n]) # DemonHunter
        /\ (~require_shaman /\ pc = "protect") => merge_series = Census

(* a full board with a pair of rank-1 demon hunters, decided with          *)
(* require_shaman set                                                      *)
C25_Witness ==
    /\ pc = "done" /\ ~raised /\ merge_target = DemonHunter /\ require_shaman
    /\ board_is_full(grid)
    /\ Cardinality(get_group(grid, <<DemonHunter, 1>>)) >= 2

----------------------------------------------------------------------------
(* Bot.try_merge over a second family of grids: knight statues and         *)
(* harlequins of two ranks, pairs at the max rank, pairs of a protected    *)
(* unit below rank 3, and rank arguments 1 and 2; require_shaman is off.   *)
PoolKinds ==
    << <<"empty.png", 0>>, <<"crystal.png", 2>>, <<"harlequin.png", 1>>,
       <<"harlequin.png", 2>>, <<"knight_statue.png", 1>>,
       <<"knight_statue.png", 2>>, <<"summoner.png", 2>>,
       <<"summoner.png", 7>> >>
PoolBackgrounds == {"empty", "mixed"}
PoolChoices ==
    {s \in [1..NActive -> 1..Len(PoolKinds)] :
        \A i \in 1..(NActive - 1) : s[i] <= s[i + 1]}
PoolGridOf(s, bg) ==
    [i \in Slots |->
        LET cell == IF i <= NActive THEN PoolKinds[s[i]]
                    ELSE BackgroundCell(bg, i)
        IN  [unit |-> cell[1], rank |-> cell[2]]]
PoolRanks == {1, 2}

(* lines 424-467 *)
ScanPool ==
    /\ pc = "idle"
    /\ \E s \in PoolChoices, bg \in PoolBackgrounds :
          /\ grid' = PoolGridOf(s, bg)
          /\ merge_series' =
                adv_filter_keys(unit_series_of(PoolGridOf(s, bg)),
                                Some({"empty.png"}), None, TRUE)
    /\ merge_target' \in MergeTargets
    /\ require_shaman' = FALSE
    /\ rank' \in PoolRanks
    /\ merge_df' = None /\ info' = "" /\ swipes' = <<>>
    /\ waited' = FALSE /\ raised' = FALSE
    /\ pc' = "special"
    /\ UNCHANGED <<filterVars, ageVars, extraVars>>

PoolNext ==
    \/ ScanPool \/ SpecialMerge \/ DemonGuard \/ Protect \/ KnightParity
    \/ Narrow \/ PriorityMerge \/ Fullness \/ Return
SpecPool == Init /\ [][PoolNext]_vars

(* the census after the require_shaman strip of a demon_hunter cycle *)
StrippedCensus ==
    LET census == Census
    IN  IF merge_target = DemonHunter /\ require_shaman
        THEN Restrict(census, {k \in DOMAIN census : k[1] # DemonHunter})
        ELSE census
(* the pool after the chemist, cauldron and knight_statue protection *)
PoolAfterProtection ==
    preserve_times(
        preserve_times(preserve_unit(StrippedCensus, "chemist.png", FALSE).ret,
                       "cauldron.png", TRUE, CauldronsKept),
        "knight_statue.png", FALSE, KnightsKept)
(* a slot whose (unit, rank) entry may be merged: its pool count after the *)
(* protection is at least 2 and its rank is not the max rank               *)
Mergeable(pool, i) ==
    CountIn(pool, UnitOf(i), RankOf(i)) >= 2 /\ RankOf(i) # MaxRank
StageSwipes(stages) == {n \in 1..Len(swipes) : swipes[n].stage \in stages}

(* C21: every priority or fullness merge of a cycle pairs two slots of one *)
(* (unit, rank) entry whose count in the pool after the protection passes  *)
(* is at least 2 and whose rank is not 7; the rows of the returned merge   *)
(* are of such an entry too.                                               *)
C21_MergeFromNarrowedPool ==
    LET pool == PoolAfterProtection
    IN  /\ pc = "narrow" => merge_series = pool
        /\ \A n \in StageSwipes(MergeUnitStages) :
              /\ Mergeable(pool, swipes[n].from)
              /\ KeyAt(grid, swipes[n].from) = KeyAt(grid, swipes[n].to)
        /\ merge_df.some =>
              \A n \in 1..Len(merge_df.val) : Mergeable(pool, merge_df.val[n])

(* a merge on a full board that also holds two rank-7 summoners and units  *)
(* held once                                                               *)
C21_Witness ==
    /\ pc = "done" /\ StageSwipes(MergeUnitStages) # {}
    /\ df_groups(grid, "empty.png") = 0
    /\ Cardinality(get_group(grid, <<"summoner.png", 7>>)) = 2

(* the narrowed pool and its entries at the rank argument *)
NarrowedPool ==
    LET pool == PoolAfterProtection
    IN  Restrict(pool, {k \in DOMAIN pool : pool[k] >= 2 /\ k[2] # MaxRank})
TargetRankKeys == {k \in DOMAIN NarrowedPool : k[2] = rank}

(* C22: a fullness merge is issued only with at most 2 empty slots; it is  *)
(* drawn from an entry of the narrowed pool at the target rank whenever    *)
(* there is one, and the escalated pool is used only when there is none.   *)
C22_FullnessPrefersTargetRank ==
    /\ StageSwipes({"full", "escalate"}) # {} =>
          df_groups(grid, "empty.png") <= 2
    /\ \A n \in StageSwipes({"full"}) :
          KeyAt(grid, swipes[n].from) \in TargetRankKeys
    /\ StageSwipes({"escalate"}) # {} => TargetRankKeys = {}
    /\ (pc = "done" /\ ~raised /\ df_groups(grid, "empty.png") <= 2
           /\ TargetRankKeys # {}) =>
          /\ StageSwipes({"full"}) # {} /\ info = "Merging!"
          /\ merge_df = Some(<<swipes[Len(swipes)].from, swipes[Len(swipes)].to>>)

(* a fullness merge at rank 2 on a full board whose pool also holds        *)
(* entries of other ranks                                                  *)
C22_Witness ==
    /\ pc = "done" /\ rank = 2 /\ StageSwipes({"full"}) # {}
    /\ df_groups(grid, "empty.png") = 0
    /\ DOMAIN NarrowedPool # TargetRankKeys

(* C23: when the fullness check escalates, the pool the merge is drawn     *)
(* from holds only entries of ranks 3 to 7 and no entry of a protected     *)
(* unit (zealot, crystal, bruser, the dps unit).                           *)
C23_EscalatedPoolHighUnprotected ==
    (pc = "done" /\ ~raised /\ info = "Merging high level!") =>
        \A k \in DOMAIN merge_series :
            k[2] \in HighLevelRanks /\ k[1] \notin HighLevelUnits(merge_target)

(* the units of a kind a series holds above the rank *)
Above(series, unit, r) ==
    SumOver([q \in (r + 1)..MaxRank |-> CountIn(series, unit, q)],
            (r + 1)..MaxRank)

(* C26: a harlequin copy of a knight statue is swiped only when the board  *)
(* holds an odd number of knight statues, from a harlequin to a knight     *)
(* statue of the same rank; after it the two knight statues of the highest *)
(* ranks are out of the pool.                                              *)
C26_KnightParity ==
    /\ \A n \in StageSwipes({"harley_knight"}) :
          /\ df_groups(grid, "knight_statue.png") % 2 = 1
          /\ UnitOf(swipes[n].from) = "harlequin.png"
          /\ UnitOf(swipes[n].to) = "knight_statue.png"
          /\ RankOf(swipes[n].from) = RankOf(swipes[n].to)
    /\ pc = "narrow" =>
          LET census == Census
          IN  \A r \in 1..MaxRank :
                CountIn(merge_series, "knight_statue.png", r)
                  = Zero(CountIn(census, "knight_statue.png", r)
                         - Zero(KnightsKept
                                - Above(census, "knight_statue.png", r)))

(* three knight statues of two ranks and a harlequin copy of one of them *)
C26_Witness ==
    /\ pc = "done" /\ StageSwipes({"harley_knight"}) # {}
    /\ df_groups(grid, "knight_statue.png") = 3
    /\ Cardinality(get_group(grid, <<"knight_statue.png", 1>>)) = 1

(* C28: the census counts of the 15 slots sum to 15 with 'empty.png' and   *)
(* to 15 less the empty slots without it, the empty-slot count the         *)
(* fullness check reads is defined (0 on a board without an empty slot),   *)
(* and every count of the working pool is at least 1 at every stage.       *)
C28_CensusCounts ==
    InCycle =>
        LET empties == Cardinality({i \in Slots : UnitOf(i) = "empty.png"})
        IN  /\ Sum(unit_series_of(grid)) = GridSize
            /\ Sum(Census) = GridSize - empties
            /\ \A k \in DOMAIN Census : Census[k] >= 1
            /\ "empty.png" \in DOMAIN get_unit_count(grid)
            /\ get_unit_count(grid)["empty.png"] = empties
            /\ \A k \in DOMAIN merge_series : merge_series[k] >= 1

(* a board without an empty slot whose only knight statue has left the pool *)
C28_Witness ==
    /\ pc = "done" /\ ~raised
    /\ \A i \in Slots : UnitOf(i) # "empty.png"
    /\ get_unit_count(grid)["empty.png"] = 0
    /\ df_groups(grid, "knight_statue.png") = 1
    /\ \A k \in DOMAIN merge_series : k[1] # "knight_statue.png"

----------------------------------------------------------------------------
(* The series primitives called on their own, over every series with keys  *)
(* in FKeys and counts up to MaxCount.                                     *)
MaxCount == 2
FUnits == {"chemist.png", "demon_hunter.png"}
FRanks == {2, 3}
FKeys == FUnits \X FRanks
AbsentUnit == "x.png"
AbsentRank == 4

(* a count map with its zero counts left out: a census never holds a zero *)
SeriesOf(c) == Restrict(c, {k \in DOMAIN c : c[k] > 0})
SeriesSet == {SeriesOf(c) : c \in [FKeys -> 0..MaxCount]}
UnitArgs == {None} \cup {Some(S) : S \in SUBSET (FUnits \cup {AbsentUnit})}
RankArgs == {None} \cup {Some(S) : S \in SUBSET (FRanks \cup {AbsentRank})}

FilterInit ==
    /\ mergeIdle /\ ageIdle /\ extraIdle
    /\ f_series \in SeriesSet
    /\ f_match = None /\ f_rest = None /\ f_pres = None
    /\ \/ /\ f_op = "adv_filter_keys"
          /\ f_units \in UnitArgs /\ f_ranks \in RankArgs
          /\ f_target = "" /\ f_keep_min = FALSE
       \/ /\ f_op = "preserve_unit"
          /\ f_units = None /\ f_ranks = None
          /\ f_target \in FUnits \cup {AbsentUnit} /\ f_keep_min \in BOOLEAN

(* adv_filter_keys(series, units, ranks, remove=False) *)
CallFilterMatch ==
    /\ f_op = "adv_filter_keys" /\ ~f_match.some
    /\ f_match' = Some(adv_filter_keys(f_series, f_units, f_ranks, FALSE))
    /\ UNCHANGED <<f_op, f_series, f_units, f_ranks, f_target, f_keep_min,
                   f_rest, f_pres>>
    /\ UNCHANGED <<mergeVars, ageVars, extraVars>>

(* adv_filter_keys(series, units, ranks, remove=True) *)
CallFilterRemove ==
    /\ f_op = "adv_filter_keys" /\ ~f_rest.some
    /\ f_rest' = Some(adv_filter_keys(f_series, f_units, f_ranks, TRUE))
    /\ UNCHANGED <<f_op, f_series, f_units, f_ranks, f_target, f_keep_min,
                   f_match, f_pres>>
    /\ UNCHANGED <<mergeVars, ageVars, extraVars>>

(* preserve_unit(series, target, keep_min) *)
CallPreserve ==
    /\ f_op = "preserve_unit" /\ ~f_pres.some
    /\ f_pres' = Some(preserve_unit(f_series, f_target, f_keep_min))
    /\ UNCHANGED <<f_op, f_series, f_units, f_ranks, f_target, f_keep_min,
                   f_match, f_rest>>
    /\ UNCHANGED <<mergeVars, ageVars, extraVars>>

FilterNext == CallFilterMatch \/ CallFilterRemove \/ CallPreserve
SpecFilter == FilterInit /\ [][FilterNext]_vars

(* C5: with both a unit set and a rank set, remove=False returns exactly   *)
(* the entries whose unit is in the unit set AND whose rank is in the rank *)
(* set, counts unchanged.                                                  *)
C5_BothPredicates ==
    (f_match.some /\ f_units.some /\ f_ranks.some) =>
        /\ DOMAIN f_match.val =
             {k \in DOMAIN f_series : k[1] \in f_units.val /\ k[2] \in f_ranks.val}
        /\ \A k \in DOMAIN f_match.val : f_match.val[k] = f_series[k]

(* the unit test's shape: entries matching both, only the unit, only the rank *)
C5_Witness ==
    /\ f_match.some
    /\ f_units = Some({"chemist.png"}) /\ f_ranks = Some({2})
    /\ DOMAIN f_series = FKeys
    /\ DOMAIN f_match.val = {<<"chemist.png", 2>>}

C7_PreserveOne ==
    f_pres.some =>
        LET s == f_series
            out == f_pres.val.ret
            present == {k[2] : k \in {x \in DOMAIN s : x[1] = f_target}}
        IN  /\ f_pres.val.arg = s
            /\ present = {} => out = s
            /\ present # {} =>
                 LET key == <<f_target,
                              IF f_keep_min THEN Min(present) ELSE Max(present)>>
                 IN  /\ DOMAIN out \ {key} = DOMAIN s \ {key}
                     /\ \A k \in DOMAIN s \ {key} : out[k] = s[k]
                     /\ s[key] = 1 => key \notin DOMAIN out
                     /\ s[key] > 1 => key \in DOMAIN out /\ out[key] = s[key] - 1

(* two ranks of the target present, the chosen one held once: it is dropped *)
C7_Witness ==
    /\ f_pres.some /\ f_target = "chemist.png" /\ ~f_keep_min
    /\ <<"chemist.png", 2>> \in DOMAIN f_series
    /\ <<"chemist.png", 3>> \in DOMAIN f_series
    /\ f_series[<<"chemist.png", 3>>] = 1
    /\ <<"chemist.png", 3>> \notin DOMAIN f_pres.val.ret
    /\ <<"chemist.png", 2>> \in DOMAIN f_pres.val.ret

----------------------------------------------------------------------------
(* core/perception.py: the grid builder.  A DataFrame is a sequence of     *)
(* rows; recognized is what recognize_units returned for the cell images,  *)
(* one [slot, unit, rank] row per image, slot counted from 0.              *)
MaxBuilds == 3
GridWidth == 5
ASlots == {0, 1}
ACells == {<<"empty.png", 0>>, <<"zealot.png", 1>>, <<"zealot.png", 2>>}

(* the rows recognize_units returns for a list of cells *)
RowsOf(cells) ==
    [i \in 1..Len(cells) |->
        [slot |-> i - 1, unit |-> cells[i][1], rank |-> cells[i][2]]]
(* no image at all, or one image per slot *)
Recognized ==
    {<<>>} \cup {RowsOf(c) : c \in [1..Cardinality(ASlots) -> ACells]}

(* _track_unit_age: the match looks at the slot, the unit and the rank *)
track_unit_age_no_rank(current_grid, previous_grid) ==
    IF Len(previous_grid) = 0
    THEN [i \in 1..Len(current_grid) |->
             [slot |-> current_grid[i].slot, unit |-> current_grid[i].unit,
              rank |-> current_grid[i].rank,
              grid_pos |-> current_grid[i].grid_pos, age |-> 0]]
    ELSE [i \in 1..Len(current_grid) |->
           LET row == current_grid[i]
               prev_match == {j \in 1..Len(previous_grid) :
                                 /\ previous_grid[j].slot = row.slot
                                 /\ previous_grid[j].unit = row.unit}
           IN  [slot |-> row.slot, unit |-> row.unit, rank |-> row.rank,
                grid_pos |-> row.grid_pos,
                age |-> IF prev_match # {}
                        THEN previous_grid[Min(prev_match)].age + 1
                        ELSE 0]]

track_unit_age(current_grid, previous_grid) ==
    IF Len(previous_grid) = 0
    THEN [i \in 1..Len(current_grid) |->
             [slot |-> current_grid[i].slot, unit |-> current_grid[i].unit,
              rank |-> current_grid[i].rank,
              grid_pos |-> current_grid[i].grid_pos, age |-> 0]]
    ELSE [i \in 1..Len(current_grid) |->
           LET row == current_grid[i]
               prev_match == {j \in 1..Len(previous_grid) :
                                 /\ previous_grid[j].slot = row.slot
                                 /\ previous_grid[j].unit = row.unit
                                 /\ previous_grid[j].rank = row.rank}
           IN  [slot |-> row.slot, unit |-> row.unit, rank |-> row.rank,
                grid_pos |-> row.grid_pos,
                \* prev_match.iloc[0]: the first matching row
                age |-> IF prev_match # {}
                        THEN previous_grid[Min(prev_match)].age + 1
                        ELSE 0]]

(* analyze_grid_state: grid positions, then ages *)
analyze_grid_state(recognized, previous_grid) ==
    LET unit_df == [i \in 1..Len(recognized) |->
                       [slot |-> recognized[i].slot, unit |-> recognized[i].unit,
                        rank |-> recognized[i].rank,
                        grid_pos |-> <<(i - 1) % GridWidth, (i - 1) \div GridWidth>>]]
    IN  IF previous_grid.some
        THEN track_unit_age(unit_df, previous_grid.val)
        ELSE [i \in 1..Len(unit_df) |->
                 [slot |-> unit_df[i].slot, unit |-> unit_df[i].unit,
                  rank |-> unit_df[i].rank, grid_pos |-> unit_df[i].grid_pos,
                  age |-> 0]]

AgeInit ==
    /\ mergeIdle /\ filterIdle /\ extraIdle
    /\ a_grid = None /\ a_prev = None /\ a_hist = <<>>

(* one build, given the previous build's result as previous_grid *)
Build ==
    /\ Len(a_hist) < MaxBuilds
    /\ \E recognized \in Recognized :
          /\ a_grid' = Some(analyze_grid_state(recognized, a_grid))
          /\ a_prev' = a_grid
          /\ a_hist' = Append(a_hist, recognized)
    /\ UNCHANGED <<mergeVars, filterVars, extraVars>>

AgeNext == Build
SpecAge == AgeInit /\ [][AgeNext]_vars

(* what build n saw at a slot: None when it had no row for the slot *)
Shown(h, n, slot) ==
    LET rows == {j \in 1..Len(h[n]) : h[n][j].slot = slot}
    IN  IF rows = {} THEN None
        ELSE LET j == Min(rows) IN Some(<<h[n][j].unit, h[n][j].rank>>)

(* the number of builds right before build n that showed, one after the    *)
(* other, what build n shows at the slot                                   *)
RECURSIVE Streak(_, _, _)
Streak(h, n, slot) ==
    IF n <= 1 THEN 0
    ELSE IF Shown(h, n - 1, slot) = Shown(h, n, slot)
         THEN 1 + Streak(h, n - 1, slot)
         ELSE 0

----------------------------------------------------------------------------
(* The cell classifier and the grid builder of core/perception.py.  A cell *)
(* image is what cv2 and the clustering make of its file: whether it can   *)
(* be read, its dominant colours (none when every pixel is dark) and what  *)
(* the rank model predicts for it (None when the prediction raises).       *)
mse_threshold == 2000
Channels == 3
MaxRefs == 2
Red == <<200, 40, 40>>
Crimson == <<210, 45, 40>>
Orange == <<240, 80, 40>>
Coral == <<220, 60, 40>>
Maroon == <<120, 40, 40>>
Blue == <<40, 40, 200>>
Inf == Channels * 255 * 255 + 1

Image(file, colors, pred) == [file |-> file, colors |-> colors, pred |-> pred]
MissingImage == Image("missing", {}, None)
BlankImage == Image("ok", {}, Some(1))
ImageKinds ==
    {MissingImage, BlankImage,
     Image("ok", {Red}, Some(3)), Image("ok", {Red}, Some(0)),
     Image("ok", {Crimson, Blue}, Some(9)), Image("ok", {Coral}, Some(7)),
     Image("ok", {Maroon}, None), Image("ok", {Orange}, Some(5))}
(* the cells that vary: slot 0 and slot 3; every other cell is blank *)
VaryingSlots == <<0, 3>>
CellLists ==
    {[i \in 1..GridSize |-> IF i - 1 = VaryingSlots[1] THEN a
                            ELSE IF i - 1 = VaryingSlots[2] THEN b
                            ELSE BlankImage] : a \in ImageKinds, b \in ImageKinds}
RefUnits == {"chemist.png", "dryad.png", "zealot.png"}
RefColors == {{}, {Red}, {Orange}}
RefEntries == {[unit |-> u, colors |-> c] : u \in RefUnits, c \in RefColors}
(* unit_colors: a dict, so no unit twice; its order is the loading order *)
RefDecks ==
    UNION {{d \in [1..n -> RefEntries] :
               \A i, j \in 1..n : i # j => d[i].unit # d[j].unit} : n \in 0..MaxRefs}

(* _extract_dominant_colors: no colours for a file cv2 cannot read and for *)
(* an image without a pixel brighter than 30                               *)
extract_dominant_colors(image) ==
    IF image.file # "ok" THEN {} ELSE image.colors

(* np.mean((c1 - c2) ** 2) times the number of channels *)
SqDiff(c1, c2) ==
    SumOver([k \in 1..Channels |-> (c1[k] - c2[k]) * (c1[k] - c2[k])], 1..Channels)

(* _calculate_color_mse, times the number of channels *)
calculate_color_mse(colors1, colors2) ==
    IF colors1 = {} \/ colors2 = {} THEN Inf
    ELSE Min({SqDiff(c1, c2) : c1 \in colors1, c2 \in colors2})

(* the loop of _find_best_unit_match from reference n on *)
RECURSIVE best_from(_, _, _, _)
best_from(unit_colors, refs, n, best) ==
    IF n > Len(refs) THEN best
    ELSE LET mse == calculate_color_mse(unit_colors, refs[n].colors)
         IN  IF refs[n].colors = {}
             THEN best_from(unit_colors, refs, n + 1, best)
             ELSE IF mse < best.lowest_mse /\ mse <= Channels * mse_threshold
                  THEN best_from(unit_colors, refs, n + 1,
                                 [unit |-> refs[n].unit, lowest_mse |-> mse])
                  ELSE best_from(unit_colors, refs, n + 1, best)

(* the first reference within the threshold wins *)
find_best_unit_match_first(unit_colors, refs) ==
    LET ok == {n \in 1..Len(refs) :
                  /\ refs[n].colors # {}
                  /\ calculate_color_mse(unit_colors, refs[n].colors)
                         <= Channels * mse_threshold}
    IN  IF ok = {} THEN "empty.png" ELSE refs[Min(ok)].unit

find_best_unit_match(unit_colors, refs) ==
    best_from(unit_colors, refs, 1, [unit |-> "empty.png", lowest_mse |-> Inf]).unit

(* _predict_unit_rank *)
predict_unit_rank(image, model) ==
    IF ~model THEN 1
    ELSE IF image.file # "ok" THEN 1
    ELSE IF ~image.pred.some THEN 1
    ELSE Max({1, Min({7, image.pred.val})})

(* recognize_units: one row per cell.  Nothing the try block calls lets an *)
(* exception out, so no row takes the 'unknown.png' branch.                *)
recognize_units(cells, refs, model) ==
    [i \in 1..Len(cells) |->
        LET unit_colors == extract_dominant_colors(cells[i])
        IN  IF unit_colors = {}
            THEN [slot |-> i - 1, unit |-> "empty.png", rank |-> 0]
            ELSE [slot |-> i - 1,
                  unit |-> find_best_unit_match(unit_colors, refs),
                  rank |-> IF model THEN predict_unit_rank(cells[i], model)
                           ELSE 0]]

(* RushRoyaleBot.swipe: boxes has shape (3, 5, 2) *)
BoxRows == 3
BoxCols == 5
swipe(start, end) ==
    IF /\ start[1] \in 0..(BoxRows - 1) /\ start[2] \in 0..(BoxCols - 1)
       /\ end[1] \in 0..(BoxRows - 1) /\ end[2] \in 0..(BoxCols - 1)
    THEN [err |-> "", from |-> start[1] * BoxCols + start[2],
          to |-> end[1] * BoxCols + end[2]]
    ELSE [err |-> "IndexError", from |-> -1, to |-> -1]

PerceptInit ==
    /\ mergeIdle /\ filterIdle /\ ageIdle /\ lateIdle /\ captureIdle /\ pubIdle /\ deckIdle
    /\ specialIdle
    /\ p_refs \in RefDecks /\ p_model \in BOOLEAN /\ p_cells \in CellLists
    /\ p_grid = None /\ p_swipe = None

(* analyze_grid_state(unit_files) on the cell images *)
Analyze ==
    /\ p_grid = None
    /\ p_grid' = Some(analyze_grid_state(
                        recognize_units(p_cells, p_refs, p_model), None))
    /\ UNCHANGED <<p_refs, p_model, p_cells, p_swipe>>
    /\ UNCHANGED <<mergeVars, filterVars, ageVars, lateVars, captureVars, pubVars, deckVars,
                 specialVars>>

(* a swipe from one slot of the grid to its neighbour, by their grid_pos *)
SwipeCells ==
    /\ p_grid.some /\ p_swipe = None
    /\ \E i \in 1..Len(p_grid.val) :
          LET j == (i % Len(p_grid.val)) + 1
          IN  p_swipe' = Some([slot_from |-> p_grid.val[i].slot,
                               slot_to |-> p_grid.val[j].slot,
                               out |-> swipe(p_grid.val[i].grid_pos,
                                             p_grid.val[j].grid_pos)])
    /\ UNCHANGED <<p_refs, p_model, p_cells, p_grid>>
    /\ UNCHANGED <<mergeVars, filterVars, ageVars, lateVars, captureVars, pubVars, deckVars,
                 specialVars>>

PerceptNext == Analyze \/ SwipeCells
SpecPerception == PerceptInit /\ [][PerceptNext]_vars

(* C11: in every built grid a slot has rank 0 exactly when its unit is     *)
(* empty, and every other slot has a rank in 1..7.                         *)
C11_RankZeroIffEmpty ==
    p_grid.some =>
        \A i \in 1..Len(p_grid.val) :
            /\ p_grid.val[i].rank = 0 <=> p_grid.val[i].unit = "empty.png"
            /\ p_grid.val[i].unit # "empty.png" => p_grid.val[i].rank \in 1..7

(* C12: the 15 positions of a built grid are pairwise distinct pairs       *)
(* (row, col), row in 0..2 and col in 0..4, given in row-major order, and  *)
(* a swipe between two of them indexes inside the 3x5 grid of boxes.       *)
C12_PositionsInGrid ==
    /\ p_grid.some =>
          /\ Len(p_grid.val) = GridSize
          /\ \A i, j \in 1..Len(p_grid.val) :
                i # j => p_grid.val[i].grid_pos # p_grid.val[j].grid_pos
          /\ \A i \in 1..Len(p_grid.val) :
                /\ p_grid.val[i].grid_pos[1] \in 0..(BoxRows - 1)
                /\ p_grid.val[i].grid_pos[2] \in 0..(BoxCols - 1)
                /\ p_grid.val[i].grid_pos
                      = <<(i - 1) \div BoxCols, (i - 1) % BoxCols>>
    /\ p_swipe.some =>
          /\ p_swipe.val.out.err = ""
          /\ p_swipe.val.out.from = p_swipe.val.slot_from
          /\ p_swipe.val.out.to = p_swipe.val.slot_to

(* the references that have colours, and a cell's distance to each *)
ValidRefs == {n \in 1..Len(p_refs) : p_refs[n].colors # {}}
DistTo(i, n) == calculate_color_mse(p_cells[i].colors, p_refs[n].colors)
Accepted(i) == {n \in ValidRefs : DistTo(i, n) <= Channels * mse_threshold}

(* C13: for a cell with colours the classifier returns a reference whose   *)
(* colour distance is the smallest of all references when that distance is *)
(* within the threshold, and empty when no reference is within it.         *)
C13_SmallestDistanceWins ==
    p_grid.some =>
        \A i \in 1..Len(p_grid.val) :
            extract_dominant_colors(p_cells[i]) # {} =>
                IF Accepted(i) = {}
                THEN p_grid.val[i].unit = "empty.png"
                ELSE \E n \in Accepted(i) :
                        /\ p_grid.val[i].unit = p_refs[n].unit
                        /\ \A m \in ValidRefs : DistTo(i, n) <= DistTo(i, m)

(* two references within the threshold, the nearer one loaded second, and  *)
(* beside it a cell no reference is near enough to                         *)
C13_Witness ==
    /\ p_grid.some /\ Len(p_refs) = 2
    /\ Accepted(1) = {1, 2} /\ DistTo(1, 2) < DistTo(1, 1)
    /\ p_grid.val[1].unit = p_refs[2].unit
    /\ p_cells[4].colors = {Maroon} /\ Accepted(4) = {}
    /\ p_grid.val[4].unit = "empty.png"

(* C14: a cell whose image is missing or unreadable is classified as       *)
(* unknown, never as empty or as a unit of the deck.                       *)
C14_CorruptIsUnknown ==
    p_grid.some =>
        \A i \in 1..Len(p_grid.val) :
            p_cells[i].file # "ok" => p_grid.val[i].unit = "unknown.png"

----------------------------------------------------------------------------
(* Screen capture: Bot.getScreen as bot_loop calls it through              *)
(* battle_screen, and the scan_grid(new=False) of the combat section that  *)
(* crops the cells from screenRGB.  A capture is named by its number.      *)
MaxShots == 4
(* how the screencap and the checks on its file end *)
CaptureResults == {"ok", "open_error", "invalid", "too_small"}
(* how error_recovery.handle_error ends: True with a readable screenshot   *)
(* on disk, True without one, False, or an exception                       *)
RecoveryResults == {"recovered", "no_image", "failed", "raises"}

(* Bot.getScreen: the new screenRGB, whether the file exists, the outcome *)
getScreen(screen, file, shot, capture, recovery) ==
    LET exists == file \/ capture # "open_error"
    IN  IF capture = "ok"
        THEN [screen |-> Some(shot), file |-> TRUE, out |-> "fresh"]
        ELSE IF recovery = "recovered"
        THEN [screen |-> Some(shot), file |-> TRUE, out |-> "recovered"]
        ELSE IF exists /\ screen.some
        THEN [screen |-> screen, file |-> exists, out |-> "cached"]
        ELSE [screen |-> screen, file |-> exists, out |-> "raised"]

(* Bot.__init__: screenRGB is what cv2.imread makes of the file, if any *)
CaptureInit ==
    /\ mergeIdle /\ filterIdle /\ ageIdle /\ lateIdle /\ perceptIdle /\ pubIdle /\ deckIdle
    /\ specialIdle
    /\ \E start \in {<<FALSE, None>>, <<TRUE, None>>, <<TRUE, Some(0)>>} :
          c_file = start[1] /\ c_screen = start[2]
    /\ c_shots = 0 /\ c_out = "none" /\ c_how = "none" /\ c_scan = None
    /\ c_alive = TRUE

(* bot_loop: battle_screen -> get_current_icons -> getScreen; an exception *)
(* of getScreen is caught nowhere and ends bot_loop                        *)
GetScreen ==
    /\ c_alive /\ c_shots < MaxShots /\ c_out # "returned"
    /\ \E capture \in CaptureResults, recovery \in RecoveryResults :
          LET r == getScreen(c_screen, c_file, c_shots + 1, capture, recovery)
          IN  /\ c_screen' = r.screen /\ c_file' = r.file
              /\ c_out' = IF r.out = "raised" THEN "raised" ELSE "returned"
              /\ c_how' = r.out
              /\ c_alive' = (r.out # "raised")
    /\ c_shots' = c_shots + 1
    /\ UNCHANGED c_scan
    /\ UNCHANGED <<mergeVars, filterVars, ageVars, lateVars, perceptVars, pubVars, deckVars,
                 specialVars>>

(* the combat section: try_merge's scan_grid(new=False) crops the cells    *)
(* from screenRGB, and the grid is carried into the next cycle             *)
ScanGrid ==
    /\ c_alive /\ c_out = "returned"
    /\ c_scan' = Some([img |-> c_screen.val, shot |-> c_shots])
    /\ c_out' = "scanned"
    /\ UNCHANGED <<c_screen, c_file, c_shots, c_how, c_alive>>
    /\ UNCHANGED <<mergeVars, filterVars, ageVars, lateVars, perceptVars, pubVars, deckVars,
                 specialVars>>

(* any other screen than 'fighting': no scan in this cycle *)
NoCombat ==
    /\ c_alive /\ c_out = "returned"
    /\ c_out' = "idle"
    /\ UNCHANGED <<c_screen, c_file, c_shots, c_how, c_scan, c_alive>>
    /\ UNCHANGED <<mergeVars, filterVars, ageVars, lateVars, perceptVars, pubVars, deckVars,
                 specialVars>>

CaptureNext == GetScreen \/ ScanGrid \/ NoCombat
SpecCapture == CaptureInit /\ [][CaptureNext]_vars

(* C15: when a capture failed the loop got no exception, no older image    *)
(* stands in for the new one, and the grid built in that cycle comes from  *)
(* a no-slots signal, not from an image.                                   *)
C15_FailedCaptureGivesEmptyGrid ==
    c_how \in {"recovered", "cached", "raised"} =>
        /\ c_how # "raised" /\ c_alive
        /\ c_screen.some => c_screen.val = c_shots
        /\ (c_scan.some /\ c_scan.val.shot = c_shots)
               => c_scan.val.img = "no_slots"

----------------------------------------------------------------------------
(* Publication of a cycle's results: the worker thread (bot_loop) stores   *)
(* them in attributes of bot one by one and sets info_event; the GUI       *)
(* thread (RR_bot.start_bot) wakes on the event or after 5 s, loads the    *)
(* attributes one by one and hands them to update_text.  A stored value is *)
(* named by the cycle that computed it, 0 standing for None.               *)
MaxCycles == 2
WriteOrder == <<"unit_series", "merge_series", "df_groups", "info",
                "grid_df", "combat", "output", "combat_step">>
ReadOrder == <<"combat_step", "combat", "output", "grid_df",
               "unit_series", "merge_series", "info">>
BotFields == {WriteOrder[k] : k \in 1..Len(WriteOrder)}
(* what cycle n stores in a field *)
Stored(field, n) ==
    IF field = "output" THEN "fighting"
    ELSE IF field = "combat_step" THEN 1
    ELSE n

PublishInit ==
    /\ mergeIdle /\ filterIdle /\ ageIdle /\ lateIdle /\ perceptIdle /\ captureIdle /\ deckIdle
    /\ specialIdle
    /\ u_wpc = 0 /\ u_cycle = 0 /\ u_local = None
    /\ u_bot = [f \in BotFields |-> 0]
    /\ u_objs = <<>> /\ u_event = FALSE
    /\ u_rpc = 0 /\ u_snap = [k \in {} |-> 0]

(* worker: combat_loop returns the results of the next cycle *)
CombatLoop ==
    /\ u_wpc = 0 /\ u_cycle < MaxCycles
    /\ u_cycle' = u_cycle + 1
    /\ u_local' = Some([cycle |-> u_cycle + 1, text |-> "raw"])
    /\ u_wpc' = 1
    /\ UNCHANGED <<u_bot, u_objs, u_event, u_rpc, u_snap>>
    /\ UNCHANGED <<mergeVars, filterVars, ageVars, lateVars, perceptVars, captureVars, deckVars,
                 specialVars>>

(* worker: one attribute store; bot.grid_df gets a copy of the local grid *)
Store ==
    /\ u_wpc \in 1..Len(WriteOrder)
    /\ u_bot' = [u_bot EXCEPT ![WriteOrder[u_wpc]] =
                                  Stored(WriteOrder[u_wpc], u_cycle)]
    /\ u_objs' = IF WriteOrder[u_wpc] = "grid_df"
                 THEN Append(u_objs, u_local.val.text)
                 ELSE u_objs
    /\ u_wpc' = u_wpc + 1
    /\ UNCHANGED <<u_cycle, u_local, u_event, u_rpc, u_snap>>
    /\ UNCHANGED <<mergeVars, filterVars, ageVars, lateVars, perceptVars, captureVars, deckVars,
                 specialVars>>

(* worker: info_event.set() *)
SetEvent ==
    /\ u_wpc = Len(WriteOrder) + 1
    /\ u_event' = TRUE
    /\ u_wpc' = 0
    /\ UNCHANGED <<u_cycle, u_local, u_bot, u_objs, u_rpc, u_snap>>
    /\ UNCHANGED <<mergeVars, filterVars, ageVars, lateVars, perceptVars, captureVars, deckVars,
                 specialVars>>

(* reader: infos_ready.wait(timeout=5) returns, set or not *)
Wait ==
    /\ u_rpc = 0
    /\ u_rpc' = 1
    /\ u_snap' = [k \in {} |-> 0]
    /\ UNCHANGED <<u_wpc, u_cycle, u_local, u_bot, u_objs, u_event>>
    /\ UNCHANGED <<mergeVars, filterVars, ageVars, lateVars, perceptVars, captureVars, deckVars,
                 specialVars>>

(* reader: one attribute load of the call's argument list *)
Load ==
    /\ u_rpc \in 1..Len(ReadOrder)
    /\ u_snap' = [f \in DOMAIN u_snap \cup {ReadOrder[u_rpc]} |->
                     IF f = ReadOrder[u_rpc] THEN u_bot[f] ELSE u_snap[f]]
    /\ u_rpc' = u_rpc + 1
    /\ UNCHANGED <<u_wpc, u_cycle, u_local, u_bot, u_objs, u_event>>
    /\ UNCHANGED <<mergeVars, filterVars, ageVars, lateVars, perceptVars, captureVars, deckVars,
                 specialVars>>

(* reader: update_text rewrites the 'unit' column of the grid it was given *)
UpdateText ==
    /\ u_rpc = Len(ReadOrder) + 1
    /\ u_objs' = IF u_snap["grid_df"] # 0
                 THEN [u_objs EXCEPT ![u_snap["grid_df"]] = "display"]
                 ELSE u_objs
    /\ u_rpc' = u_rpc + 1
    /\ UNCHANGED <<u_wpc, u_cycle, u_local, u_bot, u_event, u_snap>>
    /\ UNCHANGED <<mergeVars, filterVars, ageVars, lateVars, perceptVars, captureVars, deckVars,
                 specialVars>>

(* reader: infos_ready.clear() *)
ClearEvent ==
    /\ u_rpc = Len(ReadOrder) + 2
    /\ u_event' = FALSE
    /\ u_rpc' = 0
    /\ UNCHANGED <<u_wpc, u_cycle, u_local, u_bot, u_objs, u_snap>>
    /\ UNCHANGED <<mergeVars, filterVars, ageVars, lateVars, perceptVars, captureVars, deckVars,
                 specialVars>>

PublishNext ==
    CombatLoop \/ Store \/ SetEvent \/ Wait \/ Load \/ UpdateText \/ ClearEvent
SpecPublish == PublishInit /\ [][PublishNext]_vars

(* the fields whose value tells the cycle that computed it *)
CycleFields == {"combat", "grid_df", "unit_series", "merge_series", "info"}

(* C16: the arguments the reader hands to update_text all come from one    *)
(* cycle: it never sees fields of two cycles side by side.                 *)
C16_OneCyclePerSnapshot ==
    u_rpc = Len(ReadOrder) + 1 =>
        \A f, g \in CycleFields : u_snap[f] = u_snap[g]

(* C17: a grid stored in bot.grid_df stays as it was built, and so does    *)
(* the grid the worker carries into its next cycle.                        *)
C17_PublishedGridImmutable ==
    /\ \A n \in 1..Len(u_objs) : u_objs[n] = "raw"
    /\ u_local.some => u_local.val.text = "raw"

----------------------------------------------------------------------------
(* Deck selection: setup_unit_deck (core/perception.py) and select_units   *)
(* (Src/bot_handler.py).  A unit file is named by its stem; a requested    *)
(* name comes with or without the '.png' suffix.                           *)
MinDeck == 4
MaxReq == 5
Catalog == {"chemist", "demon_hunter", "dryad", "harlequin", "zealot"}
Name(stem, png) == [stem |-> stem, png |-> png]
NameList ==
    <<Name("chemist", TRUE), Name("chemist", FALSE), Name("demon_hunter", TRUE),
      Name("dryad", TRUE), Name("ghost", TRUE), Name("harlequin", TRUE),
      Name("zealot", TRUE)>>
(* requests up to MaxReq names, a name as often as wanted; no result looks *)
(* at the order, so one order stands for all                               *)
Requests ==
    UNION {{[i \in 1..n |-> NameList[r[i]]] :
               r \in {q \in [1..n -> 1..Len(NameList)] :
                         \A i \in 1..n : i < n => q[i] <= q[i + 1]}} :
           n \in 0..MaxReq}
PriorDecks == {{}, {"chemist", "knight_statue"}}

(* setup_unit_deck: clear, copy every requested name that is in the        *)
(* catalog (the suffix added when missing), count the copies               *)
setup_unit_deck(unit_names, active) ==
    LET copied == {i \in 1..Len(unit_names) : unit_names[i].stem \in Catalog}
    IN  [active |-> {unit_names[i].stem : i \in copied},
         ok |-> Cardinality(copied) >= MinDeck]

(* select_units: clear, write every requested file cv2 can read from the   *)
(* catalog, count the files in the directory                               *)
select_units(units, active) ==
    LET written == {i \in 1..Len(units) :
                       units[i].png /\ units[i].stem \in Catalog}
        now == {units[i].stem : i \in written}
    IN  [active |-> now, ok |-> Cardinality(now) > MinDeck]

DeckInit ==
    /\ mergeIdle /\ filterIdle /\ ageIdle /\ lateIdle /\ perceptIdle /\ captureIdle /\ pubIdle
    /\ specialIdle
    /\ d_op = "none" /\ d_req \in Requests /\ d_active \in PriorDecks
    /\ d_ok = FALSE

SetupUnitDeck ==
    /\ d_op = "none"
    /\ LET r == setup_unit_deck(d_req, d_active)
       IN  d_active' = r.active /\ d_ok' = r.ok
    /\ d_op' = "setup_unit_deck"
    /\ UNCHANGED d_req
    /\ UNCHANGED <<mergeVars, filterVars, ageVars, lateVars, perceptVars, captureVars, pubVars,
                 specialVars>>

SelectUnits ==
    /\ d_op = "none"
    /\ LET r == select_units(d_req, d_active)
       IN  d_active' = r.active /\ d_ok' = r.ok
    /\ d_op' = "select_units"
    /\ UNCHANGED d_req
    /\ UNCHANGED <<mergeVars, filterVars, ageVars, lateVars, perceptVars, captureVars, pubVars,
                 specialVars>>

DeckNext == SetupUnitDeck \/ SelectUnits
SpecDeck == DeckInit /\ [][DeckNext]_vars

(* the requested files that exist in the catalog *)
Wanted ==
    {d_req[i].stem : i \in {j \in 1..Len(d_req) :
        /\ d_req[j].stem \in Catalog
        /\ (d_req[j].png \/ d_op = "setup_unit_deck")}}

(* C18: deck selection reports success exactly when at least 4 unit files  *)
(* are in the active directory afterwards, and the directory then holds    *)
(* exactly the requested files of the catalog and no earlier file.         *)
C18_SuccessIffFourFiles ==
    d_op \in {"setup_unit_deck", "select_units"} =>
        /\ d_ok <=> Cardinality(d_active) >= MinDeck
        /\ d_active = Wanted

----------------------------------------------------------------------------
(* Bot.special_merge called on its own, with the pool try_merge hands it   *)
(* (the census without 'empty.png'), over every grid whose first NSpecial  *)
(* slots hold any of SpecialKinds and whose other slots are empty.         *)
NSpecial == 4
SpecialKinds ==
    << <<"empty.png", 0>>, <<"chemist.png", 1>>,
       <<"demon_hunter.png", 1>>, <<"demon_hunter.png", 2>>,
       <<"dryad.png", 1>>, <<"dryad.png", 2>>,
       <<"harlequin.png", 1>>, <<"harlequin.png", 2>>,
       <<"zealot.png", 1>>, <<"zealot.png", 2>> >>
SpecialChoices ==
    {s \in [1..NSpecial -> 1..Len(SpecialKinds)] :
        \A i \in 1..(NSpecial - 1) : s[i] <= s[i + 1]}
SpecialGrid(s) ==
    [i \in Slots |->
        LET cell == IF i <= NSpecial THEN SpecialKinds[s[i]] ELSE <<"empty.png", 0>>
        IN  [unit |-> cell[1], rank |-> cell[2]]]
SpecialPool(g) ==
    adv_filter_keys(unit_series_of(g), Some({"empty.png"}), None, TRUE)

SpecialInit ==
    /\ mergeIdle /\ filterIdle /\ ageIdle /\ lateIdle
    /\ perceptIdle /\ captureIdle /\ pubIdle /\ deckIdle
    /\ s_grid \in {SpecialGrid(s) : s \in SpecialChoices}
    /\ s_target \in MergeTargets
    /\ s_out = None

CallSpecialMerge ==
    /\ s_out = None
    /\ \E o \in special_merge(s_grid, SpecialPool(s_grid), s_target) :
          s_out' = Some(o)
    /\ UNCHANGED <<s_grid, s_target>>
    /\ UNCHANGED <<mergeVars, filterVars, ageVars, lateVars, perceptVars, captureVars,
                   pubVars, deckVars>>

SpecialNext == CallSpecialMerge
SpecSpecial == SpecialInit /\ [][SpecialNext]_vars

(* the pool holds the unit at the rank *)
Holds(unit, r) == <<unit, r>> \in DOMAIN SpecialPool(s_grid)
(* the dryad ranks at which a harlequin or the dps unit is held too *)
PairRanks ==
    {r \in 1..MaxRank :
        /\ Holds("dryad.png", r)
        /\ (Holds("harlequin.png", r) \/ Holds(s_target, r))}

(* C19: special_merge goes through the dryad ranks in ascending order and  *)
(* merges once, at the first rank that holds a partner for the dryad: the  *)
(* harlequin with the dryad when a harlequin is held at that rank, else    *)
(* the dryad with the dps unit; the two slots have that rank and different *)
(* units, and without such a rank nothing is swiped.                       *)
C19_FirstDryadRankMerges ==
    s_out.some =>
        LET o == s_out.val
        IN  /\ ~o.err
            /\ IF PairRanks = {}
               THEN o.swipe = None /\ o.ret = None
               ELSE LET r == Min(PairRanks)
                        from == s_grid[o.swipe.val[1]]
                        to == s_grid[o.swipe.val[2]]
                    IN  /\ o.swipe.some /\ o.ret = o.swipe
                        /\ from.rank = r /\ to.rank = r
                        /\ from.unit # to.unit
                        /\ IF Holds("harlequin.png", r)
                           THEN from.unit = "harlequin.png" /\ to.unit = "dryad.png"
                           ELSE from.unit = "dryad.png" /\ to.unit = s_target

(* dryad and dps unit at rank 1, dryad and harlequin at rank 2: the rank-1 *)
(* pair is merged                                                          *)
C19_Witness ==
    /\ s_out.some /\ s_out.val.swipe.some
    /\ PairRanks = {1, 2}
    /\ ~Holds("harlequin.png", 1) /\ Holds("harlequin.png", 2)
    /\ s_grid[s_out.val.swipe.val[1]] = [unit |-> "dryad.png", rank |-> 1]
    /\ s_grid[s_out.val.swipe.val[2]] = [unit |-> s_target, rank |-> 1]

----------------------------------------------------------------------------
(* modules/combat.py: CombatStrategy._execute_merge_strategy, one action   *)
(* per stage.  grid_df is the sequence of its rows; the first NCombat rows *)
(* hold any of CombatKinds, the others are empty or hold ten different     *)
(* units and two empty slots.  bot.swipe either sends the swipe or raises. *)
NCombat == 3
CombatKinds ==
    << <<"empty.png", 0>>, <<"chemist.png", 1>>, <<"chemist.png", 4>>,
       <<"harlequin.png", 1>>, <<"knight_statue.png", 1>>, <<"zealot.png", 1>> >>
Fillers ==
    <<"zealot.png", "bombardier.png", "bruser.png", "cauldron.png",
      "crystal.png", "demon_hunter.png", "dryad.png", "summoner.png",
      "mime.png", "scrapper.png">>
CombatBackgrounds == {"empty", "filled"}
CombatCell(bg, n) ==
    IF bg = "filled" /\ n <= GridSize - 2
    THEN <<Fillers[((n - 1) % Len(Fillers)) + 1], 2>>
    ELSE <<"empty.png", 0>>
CombatGridOf(s, bg) ==
    [n \in 1..GridSize |->
        LET cell == IF n <= NCombat THEN CombatKinds[s[n]] ELSE CombatCell(bg, n)
        IN  [unit |-> cell[1], rank |-> cell[2],
             grid_pos |-> <<(n - 1) % GridWidth, (n - 1) \div GridWidth>>]]

(* _get_unit_counts: grid_df['unit'].value_counts() *)
get_unit_counts(g) ==
    [u \in {g[n].unit : n \in DOMAIN g} |->
        Cardinality({n \in DOMAIN g : g[n].unit = u})]
(* _find_merge_candidates: the units held at least twice, 'empty.png' left *)
(* out, in an order value_counts may give them (highest count first)       *)
find_merge_candidates(unit_counts) ==
    LET units == {u \in DOMAIN unit_counts :
                     unit_counts[u] >= 2 /\ u # "empty.png"}
        n == Cardinality(units)
    IN  {q \in [1..n -> units] :
            /\ \A i, j \in 1..n : i # j => q[i] # q[j]
            /\ \A i, j \in 1..n : i < j => unit_counts[q[i]] >= unit_counts[q[j]]}
(* grid_df[grid_df['unit'] == unit]['grid_pos'].tolist(), as row numbers *)
positions(g, unit) == {n \in DOMAIN g : g[n].unit = unit}
(* _is_grid_full *)
is_grid_full(g) ==
    IF g = <<>> THEN FALSE
    ELSE Cardinality(positions(g, "empty.png")) <= FullLimit
(* _find_special_merge_target *)
target_preferences(special_unit, target) ==
    IF special_unit = "harlequin.png" THEN <<target, "knight_statue.png">>
    ELSE IF special_unit = "dryad.png" THEN <<"zealot.png", "crystal.png">>
    ELSE IF special_unit = "mime.png" THEN <<target>>
    ELSE IF special_unit = "scrapper.png" THEN <<"bombardier.png", "summoner.png">>
    ELSE <<>>
find_special_merge_target(g, special_unit, target) ==
    LET preferences == target_preferences(special_unit, target)
        present == {i \in 1..Len(preferences) : positions(g, preferences[i]) # {}}
    IN  IF present = {} THEN None ELSE Some(preferences[Min(present)])

SwipeCall(stage, unit, from, to) ==
    [stage |-> stage, unit |-> unit, from |-> from, to |-> to]
(* _merge_unit_type: the swipe it asks for, None when it returns False     *)
(* before the swipe                                                        *)
merge_unit_type(g, unit_type) ==
    LET unit_positions == positions(g, unit_type)
    IN  IF Cardinality(unit_positions) < 2 THEN None
        ELSE LET pos1 == Min(unit_positions)
             IN  Some(<<pos1, Min(unit_positions \ {pos1})>>)
(* _merge_special_unit, likewise *)
strategy_merge_special_unit(g, special_unit, target) ==
    LET special_positions == positions(g, special_unit)
        target_unit == find_special_merge_target(g, special_unit, target)
    IN  IF special_positions = {} \/ ~target_unit.some THEN None
        ELSE Some(<<Min(special_positions), Min(positions(g, target_unit.val))>>)

SpecialUnits == <<"harlequin.png", "dryad.png", "mime.png", "scrapper.png">>
PriorityList ==
    <<"chemist.png", "bombardier.png", "summoner.png", "knight_statue.png">>
protected_units(target) == {"chemist.png", "cauldron.png", target}
InSeq(x, q) == \E i \in 1..Len(q) : q[i] = x

CombatInit ==
    /\ mergeIdle /\ filterIdle /\ ageIdle /\ perceptIdle /\ captureIdle
    /\ pubIdle /\ deckIdle /\ specialIdle /\ recoveryIdle /\ stopIdle
    /\ k_pc = "idle" /\ k_grid = <<>> /\ k_target = "" /\ k_cands = <<>>
    /\ k_swipes = <<>> /\ k_merged = 0

otherThanCombat ==
    <<mergeVars, filterVars, ageVars, perceptVars, captureVars, pubVars,
      deckVars, specialVars, recoveryVars, stopVars>>

(* lines 86-91: the counts and the candidates; no candidates, no merge *)
FindCandidates ==
    /\ k_pc = "idle"
    /\ \E s \in [1..NCombat -> 1..Len(CombatKinds)], bg \in CombatBackgrounds :
          /\ k_grid' = CombatGridOf(s, bg)
          /\ k_cands' \in find_merge_candidates(get_unit_counts(CombatGridOf(s, bg)))
    /\ k_target' \in MergeTargets
    /\ k_swipes' = <<>> /\ k_merged' = 0
    /\ k_pc' = IF k_cands' = <<>> THEN "done" ELSE "special"
    /\ UNCHANGED otherThanCombat

(* the swipes of a stage that works through a list of units: a unit of the *)
(* list that is a candidate asks for its swipe, and the swipe is sent      *)
(* unless bot.swipe raises (sent[i] is FALSE)                              *)
StageSwipesOf(stage, units, asked(_), sent) ==
    LET all == [i \in 1..Len(units) |->
                   [call |-> asked(units[i]), unit |-> units[i],
                    hit |-> InSeq(units[i], k_cands) /\ sent[i]]]
        Sent(r) == r.hit /\ r.call.some
        done == SelectSeq(all, Sent)
    IN  [n \in 1..Len(done) |->
            SwipeCall(stage, done[n].unit, done[n].call.val[1],
                      done[n].call.val[2])]

(* lines 96-98: _execute_special_merges *)
SpecialStage ==
    /\ k_pc = "special"
    /\ \E sent \in [1..Len(SpecialUnits) -> BOOLEAN] :
          LET Asked(u) == strategy_merge_special_unit(k_grid, u, k_target)
              new == StageSwipesOf("special", SpecialUnits, Asked, sent)
          IN  /\ k_swipes' = k_swipes \o new
              /\ k_merged' = k_merged + Len(new)
    /\ k_pc' = "priority"
    /\ UNCHANGED <<k_grid, k_target, k_cands>>
    /\ UNCHANGED otherThanCombat

(* lines 100-102: _execute_priority_merges *)
PriorityStage ==
    /\ k_pc = "priority"
    /\ \E sent \in [1..Len(PriorityList) -> BOOLEAN] :
          LET Asked(u) == merge_unit_type(k_grid, u)
              new == StageSwipesOf("priority", PriorityList, Asked, sent)
          IN  /\ k_swipes' = k_swipes \o new
              /\ k_merged' = k_merged + Len(new)
    /\ k_pc' = "general"
    /\ UNCHANGED <<k_grid, k_target, k_cands>>
    /\ UNCHANGED otherThanCombat

(* lines 104-107: _execute_general_merges on a full grid: the candidates   *)
(* in order, the protected units skipped, until one swipe was sent         *)
GeneralStage ==
    /\ k_pc = "general"
    /\ IF is_grid_full(k_grid)
       THEN \E sent \in [1..Len(k_cands) -> BOOLEAN] :
              LET hits == {i \in 1..Len(k_cands) :
                              /\ k_cands[i] \notin protected_units(k_target)
                              /\ merge_unit_type(k_grid, k_cands[i]).some
                              /\ sent[i]}
              IN  IF hits = {}
                  THEN UNCHANGED <<k_swipes, k_merged>>
                  ELSE LET unit == k_cands[Min(hits)]
                           call == merge_unit_type(k_grid, unit).val
                       IN  /\ k_swipes' = Append(k_swipes,
                                  SwipeCall("general", unit, call[1], call[2]))
                           /\ k_merged' = k_merged + 1
       ELSE UNCHANGED <<k_swipes, k_merged>>
    /\ k_pc' = "done"
    /\ UNCHANGED <<k_grid, k_target, k_cands>>
    /\ UNCHANGED otherThanCombat

(* lines 109-113: the round returns; the next round starts from a new grid *)
CombatReturn ==
    /\ k_pc = "done"
    /\ k_pc' = "idle" /\ k_grid' = <<>> /\ k_target' = "" /\ k_cands' = <<>>
    /\ k_swipes' = <<>> /\ k_merged' = 0
    /\ UNCHANGED otherThanCombat

CombatNext ==
    \/ FindCandidates \/ SpecialStage \/ PriorityStage \/ GeneralStage
    \/ CombatReturn
SpecCombat == CombatInit /\ [][CombatNext]_vars

(* C27: every priority or general merge of CombatStrategy pairs two        *)
(* different rows holding the same unit and the same rank, and the general *)
(* stage merges at most one unit type per round.                           *)
C27_StrategySameUnitSameRank ==
    /\ \A n \in 1..Len(k_swipes) :
          k_swipes[n].stage \in {"priority", "general"} =>
              /\ k_swipes[n].from # k_swipes[n].to
              /\ k_grid[k_swipes[n].from].unit = k_grid[k_swipes[n].to].unit
              /\ k_grid[k_swipes[n].from].rank = k_grid[k_swipes[n].to].rank
    /\ Cardinality({n \in 1..Len(k_swipes) : k_swipes[n].stage = "general"}) <= 1

----------------------------------------------------------------------------
(* Src/error_recovery.py: ErrorRecoverySystem.handle_error.  A name is the *)
(* sequence of its words, joined by '_' in the source; "a in b" on two     *)
(* names is a run of b's words equal to a's.                               *)
MaxErrors == 6
recovery_strategies ==
    << <<"device", "connection", "error">>, <<"scrcpy", "connection", "error">>,
       <<"unit", "recognition", "error">>, <<"screen", "capture", "error">>,
       <<"file", "not", "found", "error">>, <<"permission", "error">>,
       <<"memory", "error">>, <<"timeout", "error">> >>
(* the errors handled: a component and the lowered name of the error type *)
ErrorInputs ==
    {<<<<"memory", "error">>, "memoryerror">>,
     <<<<"memory", "error">>, "timeouterror">>,
     <<<<"memory", "error">>, "valueerror">>,
     <<<<"memory", "error">>, "error">>,
     <<<<"screen", "capture">>, "valueerror">>}
RecoveryOutcomes == {"ok", "failed", "raised"}

Contains(hay, needle) ==
    \E i \in 0..(Len(hay) - Len(needle)) :
        \A j \in 1..Len(needle) : hay[i + j] = needle[j]

(* _determine_severity *)
determine_severity(error_type) ==
    IF error_type \in {"systemexit", "keyboardinterrupt", "memoryerror"}
    THEN "critical"
    ELSE IF error_type \in {"connectionerror", "timeouterror", "oserror"}
    THEN "high"
    ELSE IF error_type \in {"filenotfounderror", "permissionerror", "valueerror"}
    THEN "medium"
    ELSE "low"
(* max_attempts = {...}.get(severity, 1) *)
max_attempts(severity) ==
    IF severity = "low" THEN 5
    ELSE IF severity = "medium" THEN 3
    ELSE IF severity = "high" THEN 2
    ELSE 1
(* error_counts.get(error_key, 0) *)
error_count(counts, error_key) ==
    IF error_key \in DOMAIN counts THEN counts[error_key] ELSE 0
SetCount(counts, error_key, n) ==
    [k \in DOMAIN counts \cup {error_key} |->
        IF k = error_key THEN n ELSE counts[k]]
(* _record_error *)
record_error(counts, error_key) ==
    SetCount(counts, error_key, error_count(counts, error_key) + 1)

(* the retry limit alone *)
should_attempt_recovery_any_severity(count, severity) ==
    count <= max_attempts(severity)

(* _should_attempt_recovery *)
should_attempt_recovery(count, severity) ==
    IF severity = "critical" THEN FALSE
    ELSE count <= max_attempts(severity)

(* _attempt_recovery: the first strategy whose key is in the error key or  *)
(* holds the error type                                                    *)
find_strategy(error_key, error_type) ==
    LET hits == {i \in 1..Len(recovery_strategies) :
                    \/ Contains(error_key, recovery_strategies[i])
                    \/ Contains(recovery_strategies[i], <<error_type>>)}
    IN  IF hits = {} THEN None ELSE Some(recovery_strategies[Min(hits)])

(* handle_error: the counts it leaves, what it returns, whether it called  *)
(* a recovery strategy; outcome is what that strategy does when called     *)
handle_error(counts, component, error_type, outcome) ==
    LET error_key == Append(component, error_type)
        severity == determine_severity(error_type)
        recorded == record_error(counts, error_key)
        strategy == find_strategy(error_key, error_type)
        call == [key |-> error_key, severity |-> severity,
                 before |-> error_count(counts, error_key),
                 recorded |-> recorded[error_key], strategy |-> strategy,
                 outcome |-> outcome]
    IN  IF ~should_attempt_recovery(recorded[error_key], severity)
        THEN [counts |-> recorded,
              call |-> [call EXCEPT !.outcome = "none"],
              invoked |-> FALSE, ret |-> FALSE]
        ELSE IF ~strategy.some
        THEN [counts |-> recorded,
              call |-> [call EXCEPT !.outcome = "none"],
              invoked |-> FALSE, ret |-> FALSE]
        ELSE IF outcome = "ok"
        THEN [counts |-> SetCount(recorded, error_key, 0), call |-> call,
              invoked |-> TRUE, ret |-> TRUE]
        ELSE [counts |-> recorded, call |-> call, invoked |-> TRUE,
              ret |-> FALSE]

RecoveryInit ==
    /\ mergeIdle /\ filterIdle /\ ageIdle /\ perceptIdle /\ captureIdle
    /\ pubIdle /\ deckIdle /\ specialIdle /\ combatIdle /\ stopIdle
    /\ e_counts = <<>> /\ e_last = None /\ e_calls = 0

HandleError ==
    /\ e_calls < MaxErrors
    /\ \E error \in ErrorInputs, outcome \in RecoveryOutcomes :
          LET r == handle_error(e_counts, error[1], error[2], outcome)
          IN  /\ e_counts' = r.counts
              /\ e_last' = Some([key |-> r.call.key,
                                 severity |-> r.call.severity,
                                 before |-> r.call.before,
                                 recorded |-> r.call.recorded,
                                 strategy |-> r.call.strategy,
                                 outcome |-> r.call.outcome,
                                 invoked |-> r.invoked, ret |-> r.ret])
    /\ e_calls' = e_calls + 1
    /\ UNCHANGED <<mergeVars, filterVars, ageVars, perceptVars, captureVars,
                   pubVars, deckVars, specialVars, combatVars, stopVars>>

RecoveryNext == HandleError
SpecRecovery == RecoveryInit /\ [][RecoveryNext]_vars

(* the limit of a key: that of the severity of its error type *)
KeyLimit(error_key) ==
    max_attempts(determine_severity(error_key[Len(error_key)]))
Exceeded(counts, error_key) ==
    error_key \in DOMAIN counts /\ counts[error_key] > KeyLimit(error_key)
(* the last call kept to the limits *)
LastCallWithinLimits ==
    e_last.some =>
        LET c == e_last.val
        IN  /\ c.severity = "critical" => ~c.invoked /\ ~c.ret
            /\ c.recorded > KeyLimit(c.key) => ~c.invoked /\ ~c.ret
            /\ c.ret => c.invoked /\ c.outcome = "ok"
            /\ e_counts[c.key] = IF c.ret THEN 0 ELSE c.before + 1
(* a key over its limit stays over it, and a count goes down only to 0 in  *)
(* a call that recovered that key                                          *)
CountsStep ==
    \A k \in DOMAIN e_counts :
        /\ Exceeded(e_counts, k) => Exceeded(e_counts', k)
        /\ k \in DOMAIN e_counts'
        /\ e_counts'[k] < e_counts[k] =>
              /\ e_counts'[k] = 0
              /\ e_last'.val.key = k /\ e_last'.val.invoked /\ e_last'.val.ret

(* C29: handle_error calls no recovery strategy for a critical error nor   *)
(* for a key whose recorded count is over the limit of its severity (low   *)
(* 5, medium 3, high 2); a count goes back to 0 only in a call whose       *)
(* recovery succeeded, so a key over its limit stays over it and every     *)
(* later handle_error of that key returns False without a recovery.        *)
C29_NoRecoveryBeyondLimit == [](LastCallWithinLimits) /\ [][CountsStep]_vars

(* a medium error of a component with a strategy, over its limit *)
C29_Witness ==
    /\ e_last.some
    /\ e_last.val.key = <<"memory", "error", "valueerror">>
    /\ e_last.val.strategy.some
    /\ e_last.val.before > 3 /\ ~e_last.val.invoked /\ ~e_last.val.ret

----------------------------------------------------------------------------
(* Src/bot_handler.py: bot_loop, stopped from Src/gui.py: RR_bot.stop_bot  *)
(* raises stop_flag, RR_bot.start_bot sets bot.bot_stop after its next     *)
(* dump and joins the worker.  Every device call of the worker returns;    *)
(* what battle_screen reports is an input.  max_loops is capped.           *)
MaxLoops == 2
WaitLimit == 40
ScreenStates == {"fighting", "home", "other"}

(* 'while True' *)
loop_test_always(stop) == TRUE

(* line 112: while (not bot.bot_stop) *)
loop_test(stop) == ~stop

StopInit ==
    /\ mergeIdle /\ filterIdle /\ ageIdle /\ perceptIdle /\ captureIdle
    /\ pubIdle /\ deckIdle /\ specialIdle /\ combatIdle /\ recoveryIdle
    /\ t_wpc = "loop" /\ t_combat = 0 /\ t_wait = 0 /\ t_ad = FALSE
    /\ t_stop = FALSE /\ t_flag = FALSE /\ t_gpc = "dump" /\ t_after = 0

otherThanStop ==
    <<mergeVars, filterVars, ageVars, perceptVars, captureVars, pubVars,
      deckVars, specialVars, combatVars, recoveryVars>>

(* worker, line 112: the loop test; the function returns when it fails *)
LoopTest ==
    /\ t_wpc = "loop"
    /\ t_wpc' = IF loop_test(t_stop) THEN "screen" ELSE "exit"
    /\ UNCHANGED <<t_combat, t_wait, t_ad, t_stop, t_flag, t_gpc, t_after>>
    /\ UNCHANGED otherThanStop

(* worker, lines 114-118 and 142-168: battle_screen and the branch taken   *)
(* on its state; the two branches that are not 'fighting' run to the end   *)
(* of the loop body                                                        *)
BattleScreen ==
    /\ t_wpc = "screen"
    /\ \E output \in ScreenStates :
          IF output = "fighting"
          THEN /\ t_ad' = TRUE /\ t_wait' = 0 /\ t_combat' = t_combat + 1
               /\ t_wpc' = "guard"
          ELSE IF output = "home" /\ t_ad
          THEN /\ t_ad' = FALSE /\ t_wpc' = "loop"
               /\ UNCHANGED <<t_combat, t_wait>>
          ELSE /\ t_combat' = 0
               /\ t_wait' = IF t_wait + 1 > WaitLimit THEN 0 ELSE t_wait + 1
               /\ t_wpc' = "loop"
               /\ UNCHANGED t_ad
    /\ UNCHANGED <<t_stop, t_flag, t_gpc, t_after>>
    /\ UNCHANGED otherThanStop

(* worker, lines 119-130: restart after max_loops, return on bot_stop, the *)
(* shaman check (shaman is what the two looks at the screen give)          *)
Guard ==
    /\ t_wpc = "guard"
    /\ \E shaman \in {"seen", "seen late", "absent"} :
          IF t_combat > MaxLoops
          THEN /\ t_combat' = 0 /\ t_wpc' = "loop"
          ELSE IF t_stop
          THEN /\ t_wpc' = "exit" /\ UNCHANGED t_combat
          ELSE IF shaman = "seen late"
          THEN /\ t_wpc' = "loop" /\ UNCHANGED t_combat
          ELSE /\ t_wpc' = "combat" /\ UNCHANGED t_combat
    /\ UNCHANGED <<t_wait, t_ad, t_stop, t_flag, t_gpc, t_after>>
    /\ UNCHANGED otherThanStop

(* worker, lines 132-138: one combat cycle (combat_loop, hence try_merge), *)
(* its results stored, info_event set                                      *)
Combat ==
    /\ t_wpc = "combat"
    /\ t_after' = IF t_stop THEN t_after + 1 ELSE t_after
    /\ t_wpc' = "loop"
    /\ UNCHANGED <<t_combat, t_wait, t_ad, t_stop, t_flag, t_gpc>>
    /\ UNCHANGED otherThanStop

(* GUI, stop_bot: the stop button *)
StopBot ==
    /\ ~t_flag
    /\ t_flag' = TRUE
    /\ UNCHANGED <<t_wpc, t_combat, t_wait, t_ad, t_stop, t_gpc, t_after>>
    /\ UNCHANGED otherThanStop

(* GUI, start_bot lines 141-147: wait for the event or 5 s, dump, clear,   *)
(* and on stop_flag set bot_stop                                           *)
Dump ==
    /\ t_gpc = "dump"
    /\ IF t_flag THEN t_stop' = TRUE /\ t_gpc' = "join"
       ELSE UNCHANGED <<t_stop, t_gpc>>
    /\ UNCHANGED <<t_wpc, t_combat, t_wait, t_ad, t_flag, t_after>>
    /\ UNCHANGED otherThanStop

(* GUI, start_bot lines 149-153: thread_bot.join() returns once bot_loop   *)
(* has returned                                                            *)
Join ==
    /\ t_gpc = "join" /\ t_wpc = "exit"
    /\ t_gpc' = "stopped"
    /\ UNCHANGED <<t_wpc, t_combat, t_wait, t_ad, t_stop, t_flag, t_after>>
    /\ UNCHANGED otherThanStop

WorkerNext == LoopTest \/ BattleScreen \/ Guard \/ Combat
StopNext == WorkerNext \/ StopBot \/ Dump \/ Join
(* both threads keep running: a step that can be taken is taken *)
SpecStop ==
    /\ StopInit /\ [][StopNext]_vars
    /\ WF_vars(WorkerNext) /\ WF_vars(Dump) /\ WF_vars(Join)

(* C30: once bot_stop is set the worker starts at most one more combat     *)
(* cycle and returns, and the join of the GUI completes.                   *)
C30_StopTerminates ==
    /\ [](t_after <= 1)
    /\ (t_stop ~> t_wpc = "exit")
    /\ (t_stop ~> t_gpc = "stopped")

(* stopped after one combat cycle that started with bot_stop already set *)
C30_Witness ==
    t_stop /\ t_after = 1 /\ t_wpc = "exit" /\ t_gpc = "stopped"

====
